---- MODULE Spec2Model ----
(***************************************************************************)
(* A model of rucd: the UnicodeData.txt record parser and formatter        *)
(* (ucd-parse/src/unicode_data.rs), the decomposition mapping, the range   *)
(* expander, and the table writer (ucd-generate/src/writer.rs).            *)
(*                                                                         *)
(* Text is modelled as a sequence of one-character strings, so that        *)
(* parsing and formatting are computed character by character.  Rust's     *)
(* Option is a sequence of length 0 (None) or 1 (Some), and Result is a    *)
(* record with an ok flag.                                                 *)
(***************************************************************************)
EXTENDS Integers, Sequences, FiniteSets, TLC

VARIABLES
    line,         \* parser: the input line, a sequence of characters
    parsed,       \* parser: the Result of parse_line(line)
    formatted,    \* parser: the text Display wrote for the parsed record
    ppc,          \* parser: "start", "parsed", "formatted"
    srcLines,     \* expander: the rows of the file, as text
    src,          \* expander: the parsed rows, the underlying iterator's items
    it,           \* expander: the Peekable over src: pos is the index of the
                  \*   next item of the underlying iterator, peeked the buffer
    range,        \* expander: CodepointRange.range, start..end
    start_record, \* expander: CodepointRange.start_record
    out,          \* expander: the records next() has returned, in order
    ret,          \* expander: what the last call of next() returned
    prov,         \* expander, book-keeping: the index of the row of
                  \*   start_record, the rows taken as the start of a pair,
                  \*   for each record of out the index of the row it was
                  \*   made from, and whether next() has returned None
    decomp,       \* decomposition: the UnicodeDataDecomposition being built
    dres,         \* decomposition: the last call made, its argument, the
                  \*   number of codepoints it was given, and its Result
    pushed,       \* decomposition, book-keeping: the codepoints the calls
                  \*   that succeeded have put into decomp, in order
    opts,         \* writer: WriterOptions (char_literals, fst_dir given)
    wrote_header, \* writer: Writer.wrote_header
    wtr,          \* writer: Writer.wtr, a LineWriter: out is the lines written
                  \*   to the underlying writer, line the LineWriter's buffer
    files,        \* writer: the FST files created in fst_dir
    input,        \* writer: the table name and the codepoint map compiled
    calls,        \* writer: the methods called so far and whether each
                  \*   returned Ok, in order
    ranges,       \* writer: the range list of the last call, when it made one
    pstr,         \* packing: the string given to pack_str, a sequence of chars
    packed,       \* packing: the Result of pack_str(pstr), once called
    unpacked      \* packing: the string unpack_str made of the packed value

parseVars == <<line, parsed, formatted, ppc>>
expandVars == <<srcLines, src, it, range, start_record, out, ret, prov>>
decompVars == <<decomp, dres, pushed>>
writerVars == <<opts, wrote_header, wtr, files, input, calls, ranges>>
packVars == <<pstr, packed, unpacked>>

vars == <<line, parsed, formatted, ppc,
          srcLines, src, it, range, start_record, out, ret, prov,
          decomp, dres, pushed,
          opts, wrote_header, wtr, files, input, calls, ranges,
          pstr, packed, unpacked>>

-----------------------------------------------------------------------------
(* Option and Result *)

None == <<>>
Some(v) == <<v>>
Ok(v) == [ok |-> TRUE, val |-> v]
Err(m) == [ok |-> FALSE, err |-> m]

-----------------------------------------------------------------------------
(* Text *)

Str(s) == [i \in 1..Len(s) |-> SubSeq(s, i, i)]

WS == {" ", "\t", "\n", "\r"}
Digits == {"0", "1", "2", "3", "4", "5", "6", "7", "8", "9"}
UpperAZ == {"A", "B", "C", "D", "E", "F", "G", "H", "I", "J", "K", "L", "M",
            "N", "O", "P", "Q", "R", "S", "T", "U", "V", "W", "X", "Y", "Z"}
UpperHex == Digits \cup {"A", "B", "C", "D", "E", "F"}
LowerHex == {"a", "b", "c", "d", "e", "f"}

AllIn(s, set) == \A i \in 1..Len(s) : s[i] \in set

MinOf(S) == CHOOSE x \in S : \A y \in S : x <= y
MaxOf(S) == CHOOSE x \in S : \A y \in S : y <= x

\* str::trim: drop leading and trailing white space
trim(s) ==
    LET keep(i) == s[i] \notin WS
        first == CHOOSE i \in 1..Len(s) : keep(i) /\ \A j \in 1..(i - 1) : ~keep(j)
        last == CHOOSE i \in 1..Len(s) : keep(i) /\ \A j \in (i + 1)..Len(s) : ~keep(j)
    IN  IF \A i \in 1..Len(s) : ~keep(i) THEN <<>> ELSE SubSeq(s, first, last)

\* the pieces of s between the occurrences of ';', from position start on
RECURSIVE SplitAt(_, _)
SplitAt(s, start) ==
    LET seps == {i \in start..Len(s) : s[i] = ";"}
    IN  IF seps = {} THEN <<SubSeq(s, start, Len(s))>>
        ELSE <<SubSeq(s, start, MinOf(seps) - 1)>> \o SplitAt(s, MinOf(seps) + 1)

RECURSIVE JoinWith(_, _)
JoinWith(fs, sep) ==
    IF fs = <<>> THEN <<>>
    ELSE IF Len(fs) = 1 THEN fs[1]
    ELSE fs[1] \o sep \o JoinWith(Tail(fs), sep)

DigitVal(c) ==
    CASE c = "0" -> 0 [] c = "1" -> 1 [] c = "2" -> 2 [] c = "3" -> 3
      [] c = "4" -> 4 [] c = "5" -> 5 [] c = "6" -> 6 [] c = "7" -> 7
      [] c = "8" -> 8 [] c = "9" -> 9
      [] c \in {"A", "a"} -> 10 [] c \in {"B", "b"} -> 11
      [] c \in {"C", "c"} -> 12 [] c \in {"D", "d"} -> 13
      [] c \in {"E", "e"} -> 14 [] c \in {"F", "f"} -> 15

DigitChar(d) ==
    <<"0", "1", "2", "3", "4", "5", "6", "7", "8", "9",
      "A", "B", "C", "D", "E", "F">>[d + 1]

\* the value of the digit string s in the given radix, saturating at cap
\* (every caller rejects a value of cap or more)
RECURSIVE RadixValue(_, _, _, _)
RadixValue(s, radix, cap, acc) ==
    IF s = <<>> THEN acc
    ELSE LET v == acc * radix + DigitVal(Head(s))
         IN  RadixValue(Tail(s), radix, cap, IF v >= cap THEN cap ELSE v)

\* the digits of n in the given radix, most significant first ("0" for 0)
RECURSIVE RadixDigits(_, _)
RadixDigits(n, radix) ==
    IF n < radix THEN <<DigitChar(n)>>
    ELSE RadixDigits(n \div radix, radix) \o <<DigitChar(n % radix)>>

\* "{}" of an unsigned integer
FmtDecimal(n) == RadixDigits(n, 10)

\* "{}" of an i64
FmtSigned(n) == IF n < 0 THEN <<"-">> \o RadixDigits(-n, 10) ELSE RadixDigits(n, 10)

\* "{:04X}"
FmtHex04(n) ==
    LET d == RadixDigits(n, 16)
    IN  IF Len(d) >= 4 THEN d ELSE [i \in 1..(4 - Len(d)) |-> "0"] \o d

-----------------------------------------------------------------------------
(* Codepoint (ucd-parse/src/common.rs) *)

MaxCodepoint == 1114111

\* Codepoint::from_str: the text read as a hexadecimal number, which must be
\* at most U+10FFFF
Codepoint_from_str(s) ==
    IF s = <<>> \/ ~AllIn(s, UpperHex \cup LowerHex)
    THEN Err("failed to parse as a hexadecimal codepoint")
    ELSE LET n == RadixValue(s, 16, MaxCodepoint + 1, 0)
         IN  IF n > MaxCodepoint THEN Err("invalid codepoint") ELSE Ok(n)

\* Display of a Codepoint: at least four upper-case hexadecimal digits
Codepoint_fmt(cp) == FmtHex04(cp)

-----------------------------------------------------------------------------
(* UnicodeDataDecomposition *)

Capacity == 18

TagNames == {"font", "noBreak", "initial", "medial", "final", "isolated",
             "circle", "super", "sub", "vertical", "wide", "narrow", "small",
             "square", "fraction", "compat"}

\* UnicodeDataDecomposition::default(); mapping[i] of the source is
\* mapping[i + 1] here
DefaultDecomposition ==
    [tag |-> None, len |-> 0, mapping |-> [i \in 1..Capacity |-> 0]]

push_without_len(self, cp) ==
    IF self.len >= Len(self.mapping)
    THEN [ok |-> FALSE,
          err |-> "invalid decomposition mapping (too many codepoints)",
          self |-> self]
    ELSE [ok |-> TRUE, err |-> "",
          self |-> [self EXCEPT !.mapping[self.len + 1] = cp]]

push_truncating(self, cp) ==
    IF self.len >= Len(self.mapping)
    THEN [ok |-> TRUE, err |-> "", self |-> self]
    ELSE [ok |-> TRUE, err |-> "",
          self |-> [self EXCEPT !.mapping[self.len + 1] = cp,
                                !.len = self.len + 1]]

\* push: the Result, and self as the call leaves it
push(self, cp) ==
    IF self.len >= Len(self.mapping)
    THEN [ok |-> FALSE,
          err |-> "invalid decomposition mapping (too many codepoints)",
          self |-> self]
    ELSE [ok |-> TRUE, err |-> "",
          self |-> [self EXCEPT !.mapping[self.len + 1] = cp,
                                !.len = self.len + 1]]

mapping(self) == SubSeq(self.mapping, 1, self.len)

is_canonical(self) == self.tag = None

\* for &cp in mapping { x.push(cp)?; }
RECURSIVE PushAll(_, _)
PushAll(x, cps) ==
    IF cps = <<>> THEN Ok(x)
    ELSE LET r == push(x, Head(cps))
         IN  IF ~r.ok THEN Err(r.err) ELSE PushAll(r.self, Tail(cps))

UnicodeDataDecomposition_new(tag, cps) ==
    PushAll([DefaultDecomposition EXCEPT !.tag = tag], cps)

UnicodeDataDecompositionTag_from_str(s) ==
    IF \E t \in TagNames : Str(t) = s
    THEN Ok(CHOOSE t \in TagNames : Str(t) = s)
    ELSE Err("invalid decomposition formatting tag")

UnicodeDataDecompositionTag_fmt(tag) == Str(tag)

\* WITH_TAG = ^(?:<(?P<tag>[^>]+)>)?\s*(?P<chars>[\s0-9A-F]+)$ : the captures
\* "tag" (an Option) and the text after the tag, or None when s does not match
WITH_TAG(s) ==
    LET body(t) == t # <<>> /\ AllIn(t, WS \cup UpperHex)
        closes == {i \in 1..Len(s) : s[i] = ">"}
    IN  IF s # <<>> /\ Head(s) = "<"
        THEN IF closes # {} /\ MinOf(closes) >= 3
                /\ body(SubSeq(s, MinOf(closes) + 1, Len(s)))
             THEN Some([tag |-> Some(SubSeq(s, 2, MinOf(closes) - 1)),
                        rest |-> SubSeq(s, MinOf(closes) + 1, Len(s))])
             ELSE None
        ELSE IF body(s) THEN Some([tag |-> None, rest |-> s]) ELSE None

\* CHARS.find_iter: the maximal runs of [0-9A-F] of s, from position i on
RECURSIVE CHARS_find_iter(_, _)
CHARS_find_iter(s, i) ==
    LET hex == {j \in i..Len(s) : s[j] \in UpperHex}
        a == MinOf(hex)
        stops == {j \in a..Len(s) : s[j] \notin UpperHex}
        b == IF stops = {} THEN Len(s) ELSE MinOf(stops) - 1
    IN  IF hex = {} THEN <<>>
        ELSE <<SubSeq(s, a, b)>> \o CHARS_find_iter(s, b + 1)

\* for m in CHARS.find_iter(codepoints) { let cp = m.parse()?; decomp.push(cp)?; }
RECURSIVE ParseAndPush(_, _)
ParseAndPush(x, runs) ==
    IF runs = <<>> THEN Ok(x)
    ELSE LET cp == Codepoint_from_str(Head(runs))
             r == push(x, cp.val)
         IN  IF ~cp.ok THEN cp
             ELSE IF ~r.ok THEN Err(r.err)
             ELSE ParseAndPush(r.self, Tail(runs))

UnicodeDataDecomposition_from_str(s) ==
    LET caps == WITH_TAG(s)
        tag == UnicodeDataDecompositionTag_from_str(caps[1].tag[1])
    IN  IF s = <<>>
        THEN Err("expected non-empty string for UnicodeDataDecomposition value")
        ELSE IF caps = None THEN Err("invalid decomposition value")
        ELSE IF caps[1].tag # None /\ ~tag.ok THEN tag
        ELSE ParseAndPush(
                 [DefaultDecomposition EXCEPT
                      !.tag = IF caps[1].tag # None THEN Some(tag.val) ELSE None],
                 CHARS_find_iter(caps[1].rest, 1))

UnicodeDataDecomposition_fmt_no_space(self) ==
    (IF self.tag # None
     THEN <<"<">> \o UnicodeDataDecompositionTag_fmt(self.tag[1]) \o <<">">>
     ELSE <<>>)
    \o JoinWith([i \in 1..self.len |-> Codepoint_fmt(self.mapping[i])], <<" ">>)

\* Display of a decomposition: "<tag> " when tagged, then the codepoints
\* separated by one space
UnicodeDataDecomposition_fmt(self) ==
    (IF self.tag # None
     THEN <<"<">> \o UnicodeDataDecompositionTag_fmt(self.tag[1]) \o <<">", " ">>
     ELSE <<>>)
    \o JoinWith([i \in 1..self.len |-> Codepoint_fmt(self.mapping[i])], <<" ">>)

-----------------------------------------------------------------------------
(* Numbers of a row *)

U8Max == 255

\* the magnitude below which the model keeps an i64 (the model checker's integers
\* are narrower than 64 bits); a longer number is outside the modelled inputs
I64Bound == 1000000000

u8_parse_wrapping(s) ==
    LET digits == IF s # <<>> /\ Head(s) = "+" THEN Tail(s) ELSE s
    IN  IF digits = <<>> \/ ~AllIn(digits, Digits) THEN Err("invalid digit")
        ELSE Ok(RadixValue(digits, 10, I64Bound, 0) % (U8Max + 1))

\* str::parse::<u8>: an optional '+', then decimal digits, at most 255
u8_parse(s) ==
    LET digits == IF s # <<>> /\ Head(s) = "+" THEN Tail(s) ELSE s
    IN  IF digits = <<>> \/ ~AllIn(digits, Digits) THEN Err("invalid digit")
        ELSE IF RadixValue(digits, 10, U8Max + 1, 0) > U8Max
        THEN Err("number too large to fit in target type")
        ELSE Ok(RadixValue(digits, 10, U8Max + 1, 0))

\* str::parse::<i64>: an optional sign, then decimal digits
i64_parse(s) ==
    LET signed == s # <<>> /\ Head(s) \in {"-", "+"}
        digits == IF signed THEN Tail(s) ELSE s
        v == RadixValue(digits, 10, I64Bound, 0)
    IN  IF digits = <<>> \/ ~AllIn(digits, Digits) THEN Err("invalid digit")
        ELSE IF v >= I64Bound THEN Err("number too large to fit in target type")
        ELSE Ok(IF Head(s) = "-" THEN 0 - v ELSE v)

Integer(n) == [kind |-> "Integer", num |-> n, den |-> 1]
Rational(n, d) == [kind |-> "Rational", num |-> n, den |-> d]

\* UnicodeDataNumeric::from_str
UnicodeDataNumeric_from_str(s) ==
    LET slashes == {i \in 1..Len(s) : s[i] = "/"}
        pos == MinOf(slashes)
        num == i64_parse(SubSeq(s, 1, pos - 1))
        den == i64_parse(SubSeq(s, pos + 1, Len(s)))
        int == i64_parse(s)
    IN  IF s = <<>>
        THEN Err("expected non-empty string for UnicodeDataNumeric value")
        ELSE IF slashes # {}
        THEN IF ~num.ok THEN Err("invalid integer numerator")
             ELSE IF ~den.ok THEN Err("invalid integer denominator")
             ELSE Ok(Rational(num.val, den.val))
        ELSE IF int.ok THEN Ok(Integer(int.val))
             ELSE Err("invalid integer denominator")

\* Display of a UnicodeDataNumeric
UnicodeDataNumeric_fmt(n) ==
    IF n.kind = "Integer" THEN FmtSigned(n.num)
    ELSE FmtSigned(n.num) \o <<"/">> \o FmtSigned(n.den)

-----------------------------------------------------------------------------
(* UnicodeData: one row *)

NumFields == 15

\* UnicodeData::default()
DefaultUnicodeData ==
    [codepoint |-> 0, name |-> <<>>, general_category |-> <<>>,
     canonical_combining_class |-> 0, bidi_class |-> <<>>,
     decomposition |-> DefaultDecomposition,
     numeric_type_decimal |-> None, numeric_type_digit |-> None,
     numeric_type_numeric |-> None, bidi_mirrored |-> FALSE,
     unicode1_name |-> <<>>, iso_comment |-> <<>>,
     simple_uppercase_mapping |-> None, simple_lowercase_mapping |-> None,
     simple_titlecase_mapping |-> None]

PARTS_name_optional(s) ==
    LET f == SplitAt(s, 1)
    IN  IF /\ Len(f) = NumFields
           /\ f[1] # <<>> /\ AllIn(f[1], UpperAZ \cup Digits)
           /\ f[3] # <<>>
           /\ AllIn(f[4], Digits)
           /\ f[5] # <<>>
           /\ AllIn(f[7], Digits)
           /\ AllIn(f[8], Digits)
           /\ AllIn(f[9], Digits \cup {"-", "/"})
           /\ f[10] \in {<<"Y">>, <<"N">>}
        THEN Some(f)
        ELSE None

\* the regex PARTS: the 15 captures of s, or None when s does not match
PARTS(s) ==
    LET f == SplitAt(s, 1)
    IN  IF /\ Len(f) = NumFields
           /\ f[1] # <<>> /\ AllIn(f[1], UpperAZ \cup Digits)
           /\ f[2] # <<>>
           /\ f[3] # <<>>
           /\ f[4] # <<>> /\ AllIn(f[4], Digits)
           /\ f[5] # <<>>
           /\ AllIn(f[7], Digits)
           /\ AllIn(f[8], Digits)
           /\ AllIn(f[9], Digits \cup {"-", "/"})
           /\ f[10] \in {<<"Y">>, <<"N">>}
        THEN Some(f)
        ELSE None

\* an optional field: None when empty, else Some of its parsed value; a
\* Result, because the parse can fail
OptField(s, r) == IF s = <<>> THEN Ok(None) ELSE IF r.ok THEN Ok(Some(r.val)) ELSE r

\* UnicodeData::parse_line
parse_line(ln) ==
    LET caps == PARTS(trim(ln))
        capget(n) == caps[1][n]
        cp == Codepoint_from_str(capget(1))
        ccc == u8_parse(capget(4))
        dec == IF capget(6) # <<>>
               THEN UnicodeDataDecomposition_from_str(capget(6))
               ELSE LET r == push(DefaultDecomposition, cp.val)
                    IN  IF r.ok THEN Ok(r.self) ELSE Err(r.err)
        ndec == OptField(capget(7), u8_parse(capget(7)))
        ndig == OptField(capget(8), u8_parse(capget(8)))
        nnum == OptField(capget(9), UnicodeDataNumeric_from_str(capget(9)))
        up == OptField(capget(13), Codepoint_from_str(capget(13)))
        lo == OptField(capget(14), Codepoint_from_str(capget(14)))
        ti == OptField(capget(15), Codepoint_from_str(capget(15)))
    IN  IF caps = None THEN Err("invalid UnicodeData line")
        ELSE IF ~cp.ok THEN cp
        ELSE IF ~ccc.ok THEN Err("failed to parse canonical combining class")
        ELSE IF ~dec.ok THEN dec
        ELSE IF ~ndec.ok THEN Err("failed to parse numeric type decimal")
        ELSE IF ~ndig.ok THEN Err("failed to parse numeric type digit")
        ELSE IF ~nnum.ok THEN nnum
        ELSE IF ~up.ok THEN up
        ELSE IF ~lo.ok THEN lo
        ELSE IF ~ti.ok THEN ti
        ELSE Ok([codepoint |-> cp.val,
                 name |-> capget(2),
                 general_category |-> capget(3),
                 canonical_combining_class |-> ccc.val,
                 bidi_class |-> capget(5),
                 decomposition |-> dec.val,
                 numeric_type_decimal |-> ndec.val,
                 numeric_type_digit |-> ndig.val,
                 numeric_type_numeric |-> nnum.val,
                 bidi_mirrored |-> (capget(10) = <<"Y">>),
                 unicode1_name |-> capget(11),
                 iso_comment |-> capget(12),
                 simple_uppercase_mapping |-> up.val,
                 simple_lowercase_mapping |-> lo.val,
                 simple_titlecase_mapping |-> ti.val])

\* write!(f, "{};", x) for an Option o whose value is written as text: the
\* text when the value is present, then ';'
FmtOpt(o, text) == (IF o # None THEN text ELSE <<>>) \o <<";">>

\* Display of a UnicodeData
UnicodeData_fmt(self) ==
    Codepoint_fmt(self.codepoint) \o <<";">>
    \o self.name \o <<";">>
    \o self.general_category \o <<";">>
    \o FmtDecimal(self.canonical_combining_class) \o <<";">>
    \o self.bidi_class \o <<";">>
    \o (IF is_canonical(self.decomposition)
           /\ mapping(self.decomposition) = <<self.codepoint>>
        THEN <<";">>
        ELSE UnicodeDataDecomposition_fmt(self.decomposition) \o <<";">>)
    \o FmtOpt(self.numeric_type_decimal,
              FmtDecimal(self.numeric_type_decimal[1]))
    \o FmtOpt(self.numeric_type_digit,
              FmtDecimal(self.numeric_type_digit[1]))
    \o FmtOpt(self.numeric_type_numeric,
              UnicodeDataNumeric_fmt(self.numeric_type_numeric[1]))
    \o (IF self.bidi_mirrored THEN <<"Y">> ELSE <<"N">>) \o <<";">>
    \o self.unicode1_name \o <<";">>
    \o self.iso_comment \o <<";">>
    \o FmtOpt(self.simple_uppercase_mapping,
              Codepoint_fmt(self.simple_uppercase_mapping[1]))
    \o FmtOpt(self.simple_lowercase_mapping,
              Codepoint_fmt(self.simple_lowercase_mapping[1]))
    \o (IF self.simple_titlecase_mapping # None
        THEN Codepoint_fmt(self.simple_titlecase_mapping[1])
        ELSE <<>>)

-----------------------------------------------------------------------------
(* The parser's inputs: the rows of the parser's tests, with up to MaxEdits  *)
(* of their fields replaced, and with the line's shape changed.              *)

MaxEdits == 1

BaseLines ==
    {Str("249D;LETTER B;So;0;L;<compat> 0028 0062 0029;;;;N;;;;;"),
     Str("00BC;ONE QUARTER;No;0;ON;<fraction> 0031 2044 0034;;;1/4;N;FRACTION;;;;"),
     Str("0041;LETTER A;Lu;0;L;;;;;N;;;;0061;")}

\* n codepoints "0041", separated by one space
ManyCodepoints(n) == JoinWith([i \in 1..n |-> Str("0041")], <<" ">>)

FieldPool(i) ==
    CASE i = 1 -> {"", "0041", "41", "00041", "D800", "10FFFF", "110000",
                   "G041", "00e9", " 0041"}
      [] i = 2 -> {"", "A", "<control>"}
      [] i = 3 -> {"", "Lu"}
      [] i = 4 -> {"", "0", "00", "230", "255", "256", "0255", "A", "-1", "+1"}
      [] i = 5 -> {"", "L"}
      [] i = 6 -> {"", "0041", "00BC", "249D", "41", "0041 0301", "0041  0301",
                   " ", "<compat> 0041", "<compat>0041", "<compat> 0041 ",
                   "<compat> ", "<compat>", "<bogus> 0041", "<> 0041",
                   "110000", "00e9"}
      [] i = 7 -> {"", "9", "09", "255", "256", "x"}
      [] i = 8 -> {"", "9", "009", "300"}
      [] i = 9 -> {"", "9", "-1/2", "1/4", "01/4", "1/04", "-0", "007", "1/",
                   "/4", "/", "1/2/3", "-", "1-2", "+1"}
      [] i = 10 -> {"", "Y", "N", "y", "YN"}
      [] i = 11 -> {"", "OLD NAME"}
      [] i = 12 -> {"", "x"}
      [] i = 13 -> {"", "0041", "41", "ZZ", "110000"}
      [] i = 14 -> {"", "0061", "061"}
      [] i = 15 -> {"", "0041", "41", "0041 ", "x"}

FieldTexts(i) ==
    {Str(t) : t \in FieldPool(i)}
    \cup (IF i = 6 THEN {ManyCodepoints(Capacity), ManyCodepoints(Capacity + 1),
                         Str("<compat> ") \o ManyCodepoints(Capacity + 1)}
          ELSE {})

Edit1(fs) ==
    UNION {{[fs EXCEPT ![i] = t] : t \in FieldTexts(i)} : i \in 1..NumFields}

RECURSIVE Edits(_, _)
Edits(S, k) == IF k = 0 THEN S ELSE Edits(S \cup UNION {Edit1(fs) : fs \in S}, k - 1)

\* a line with a line break or a blank around it, with a 16th field, with
\* its last field cut off, and the empty line
Reshaped(b) ==
    {b \o <<"\n">>, <<" ">> \o b, b \o <<";">>, b \o Str(";x"),
     SubSeq(b, 1, Len(b) - 1), <<>>}

Lines ==
    {JoinWith(fs, <<";">>) : fs \in Edits({SplitAt(b, 1) : b \in BaseLines}, MaxEdits)}
    \cup UNION {Reshaped(b) : b \in BaseLines}

-----------------------------------------------------------------------------
(* The parser: parse a line, then format the record *)

ParseIdle == line = <<>> /\ parsed = None /\ formatted = <<>> /\ ppc = "idle"

ExpandIdle ==
    /\ srcLines = <<>> /\ src = <<>>
    /\ it = [pos |-> 1, peeked |-> None]
    /\ range = [start |-> 0, end |-> 0]
    /\ start_record = DefaultUnicodeData
    /\ out = <<>> /\ ret = None
    /\ prov = [start_row |-> 0, pairs |-> {}, out_rows |-> <<>>, done |-> FALSE]

NoCall == [op |-> "none", arg |-> <<>>, n |-> 0, ok |-> TRUE]

DecompIdle == decomp = DefaultDecomposition /\ dres = NoCall /\ pushed = <<>>

WriterIdle ==
    /\ opts = [char_literals |-> FALSE, fst_dir |-> FALSE]
    /\ wrote_header = FALSE
    /\ wtr = [out |-> <<>>, line |-> <<>>]
    /\ files = {}
    /\ input = [name |-> <<>>, map |-> <<>>]
    /\ calls = <<>> /\ ranges = <<>>

PackIdle == pstr = <<>> /\ packed = None /\ unpacked = None

InitParse ==
    /\ line \in Lines
    /\ parsed = None
    /\ formatted = <<>>
    /\ ppc = "start"
    /\ ExpandIdle /\ DecompIdle /\ WriterIdle /\ PackIdle

ParseLine ==
    /\ ppc = "start"
    /\ parsed' = parse_line(line)
    /\ ppc' = "parsed"
    /\ UNCHANGED <<line, formatted>>
    /\ UNCHANGED <<expandVars, decompVars, writerVars, packVars>>

\* println!("{}", record) of the test-unicode-data command
Format ==
    /\ ppc = "parsed"
    /\ parsed.ok
    /\ formatted' = UnicodeData_fmt(parsed.val)
    /\ ppc' = "formatted"
    /\ UNCHANGED <<line, parsed>>
    /\ UNCHANGED <<expandVars, decompVars, writerVars, packVars>>

NextParse == ParseLine \/ Format

SpecParse == InitParse /\ [][NextParse]_vars

-----------------------------------------------------------------------------
(* Properties of the parser *)

\* the fields of the line as parse_line sees them
F == SplitAt(trim(line), 1)

\* a codepoint as Display writes it: upper-case hexadecimal digits, at least
\* four, with no leading zero beyond the fourth digit from the right
CanonHex(s) ==
    /\ Len(s) >= 4
    /\ AllIn(s, UpperHex)
    /\ (Len(s) > 4 => s[1] # "0")

\* a decimal number as Display writes it: no sign, no leading zero
CanonDec(s) ==
    /\ s # <<>>
    /\ AllIn(s, Digits)
    /\ (Len(s) > 1 => s[1] # "0")

\* a signed decimal number as Display writes it
CanonSigned(s) ==
    IF s # <<>> /\ s[1] = "-"
    THEN CanonDec(Tail(s)) /\ Tail(s) # <<"0">>
    ELSE CanonDec(s)

CanonNumeric(s) ==
    LET slashes == {i \in 1..Len(s) : s[i] = "/"}
    IN  IF slashes = {} THEN CanonSigned(s)
        ELSE /\ Cardinality(slashes) = 1
             /\ CanonSigned(SubSeq(s, 1, MinOf(slashes) - 1))
             /\ CanonSigned(SubSeq(s, MinOf(slashes) + 1, Len(s)))

\* codepoints separated by exactly one space
CanonCodepoints(s) ==
    /\ s # <<>>
    /\ AllIn(s, UpperHex \cup {" "})
    /\ s[1] # " " /\ s[Len(s)] # " "
    /\ \A i \in 1..(Len(s) - 1) : ~(s[i] = " " /\ s[i + 1] = " ")
    /\ \A i \in 1..Len(CHARS_find_iter(s, 1)) : CanonHex(CHARS_find_iter(s, 1)[i])

\* a decomposition field as Display writes it
CanonDecomposition(s) ==
    \E t \in {<<>>} \cup {<<"<">> \o Str(tag) \o <<">", " ">> : tag \in TagNames} :
        /\ Len(s) > Len(t)
        /\ SubSeq(s, 1, Len(t)) = t
        /\ CanonCodepoints(SubSeq(s, Len(t) + 1, Len(s)))

\* a line written the way Display writes lines
CanonicalLine(ln) ==
    LET f == SplitAt(ln, 1)
    IN  /\ ln = trim(ln)
        /\ Len(f) = NumFields
        /\ CanonHex(f[1])
        /\ CanonDec(f[4])
        /\ (f[6] # <<>> => CanonDecomposition(f[6]))
        /\ \A i \in {7, 8} : f[i] # <<>> => CanonDec(f[i])
        /\ (f[9] # <<>> => CanonNumeric(f[9]))
        /\ \A i \in {13, 14, 15} : f[i] # <<>> => CanonHex(f[i])

\* the line with the one normalisation the specification names: a
\* decomposition field that is the row's own codepoint is written empty
Normalised(ln) ==
    LET f == SplitAt(ln, 1)
    IN  IF Len(f) = NumFields /\ f[6] = f[1]
        THEN JoinWith([f EXCEPT ![6] = <<>>], <<";">>)
        ELSE ln

\* C5 as stated: the formatted record of every accepted line is the line
\* again, the empty decomposition field being the only normalisation
C5_RoundTripEveryLine ==
    ppc = "formatted" => formatted = Normalised(line)

\* C5 amended: the formatted record of an accepted line is the line again,
\* the empty decomposition field being the only normalisation, when the line
\* is written the way Display writes: no white space around it, codepoints
\* in upper-case hexadecimal of at least four digits with no further leading
\* zero, decimal numbers without sign or leading zero (a '-' only before a
\* non-zero number), and a decomposition of an optional "<tag> " followed by
\* codepoints separated by one space.
C5_RoundTripCanonicalLine ==
    (ppc = "formatted" /\ CanonicalLine(line)) => formatted = Normalised(line)

\* C5 witness: a formatted line with a tagged decomposition and a rational
\* number, equal to the line parsed
C5_Witness ==
    /\ ppc = "formatted"
    /\ CanonicalLine(line)
    /\ F[6] # <<>> /\ F[6][1] = "<"
    /\ \E i \in 1..Len(F[9]) : F[9][i] = "/"
    /\ formatted = line

\* a field a record can be made from, by the field's own rules
FieldOk(i, s) ==
    CASE i = 1 -> s # <<>> /\ AllIn(s, UpperHex) /\ Codepoint_from_str(s).ok
      [] i \in {3, 5} -> s # <<>>
      [] i = 4 -> s = <<>> \/ (AllIn(s, Digits) /\ u8_parse(s).ok)
      [] i = 6 -> s = <<>> \/ UnicodeDataDecomposition_from_str(s).ok
      [] i \in {7, 8} -> s = <<>> \/ (AllIn(s, Digits) /\ u8_parse(s).ok)
      [] i = 9 -> s = <<>> \/ (/\ AllIn(s, Digits \cup {"-", "/"})
                               /\ UnicodeDataNumeric_from_str(s).ok)
      [] i = 10 -> s \in {<<"Y">>, <<"N">>}
      [] i \in {13, 14, 15} -> s = <<>> \/ Codepoint_from_str(s).ok
      [] OTHER -> TRUE

FieldsOk == Len(F) = NumFields /\ \A i \in 1..NumFields : FieldOk(i, F[i])

\* C6 as stated: a line of 15 fields, each empty or valid, with a codepoint,
\* a general category, a bidi class and a mirrored flag, yields a record
C6_OnlyFourMandatory ==
    (ppc \in {"parsed", "formatted"} /\ FieldsOk) => parsed.ok

\* C6 amended: a line of 15 fields, each empty or valid, with a codepoint, a
\* name, a general category, a canonical combining class, a bidi class and a
\* mirrored flag, yields a record; with an empty name or an empty canonical
\* combining class it yields an error.
C6_SixMandatory ==
    (ppc \in {"parsed", "formatted"} /\ FieldsOk) =>
        (parsed.ok <=> (F[2] # <<>> /\ F[4] # <<>>))

\* C6 witness: a record made from a line whose decomposition, numeric,
\* old-name, comment and case-mapping fields are all empty
C6_Witness ==
    /\ ppc \in {"parsed", "formatted"}
    /\ FieldsOk
    /\ parsed.ok
    /\ \A i \in {6, 7, 8, 9, 11, 12, 13, 14, 15} : F[i] = <<>>

IsDecimalU8(s) ==
    s # <<>> /\ AllIn(s, Digits) /\ RadixValue(s, 10, U8Max + 1, 0) <= U8Max

\* C7: a line that has not exactly 15 fields, or whose codepoint is not
\* hexadecimal, or whose canonical combining class is not a decimal number
\* in 0..255, or whose mirrored field is not "Y" or "N", yields an error; the
\* result is an error and nothing else, or a record with all its 15 fields,
\* whose bidi_mirrored is true exactly when the field is "Y".
C7_MalformedLineIsError ==
    ppc \in {"parsed", "formatted"} =>
        /\ (\/ Len(F) # NumFields
            \/ F[1] = <<>> \/ ~AllIn(F[1], UpperHex \cup LowerHex)
            \/ ~IsDecimalU8(F[4])
            \/ F[10] \notin {<<"Y">>, <<"N">>}) => ~parsed.ok
        /\ IF parsed.ok
           THEN /\ DOMAIN parsed = {"ok", "val"}
                /\ DOMAIN parsed.val = DOMAIN DefaultUnicodeData
                /\ parsed.val.bidi_mirrored <=> (F[10] = <<"Y">>)
           ELSE DOMAIN parsed = {"ok", "err"}

\* C7 witness: a line whose only fault is a canonical combining class of 256
\* was refused
C7_Witness ==
    /\ ppc \in {"parsed", "formatted"}
    /\ ~parsed.ok
    /\ Len(F) = NumFields
    /\ F[4] = Str("256")
    /\ \A i \in (1..NumFields) \ {4} : FieldOk(i, F[i])

-----------------------------------------------------------------------------
(* UnicodeDataExpander *)

Contains(s, t) ==
    \E i \in 1..(Len(s) - Len(t) + 1) : SubSeq(s, i, i + Len(t) - 1) = t

starts_with(s, c) == s # <<>> /\ s[1] = c
ends_with(s, c) == s # <<>> /\ s[Len(s)] = c

is_range_start(self) ==
    /\ starts_with(self.name, "<")
    /\ ends_with(self.name, ">")
    /\ Contains(self.name, Str("First"))

is_range_end(self) ==
    /\ starts_with(self.name, "<")
    /\ ends_with(self.name, ">")
    /\ Contains(self.name, Str("Last"))

\* Peekable::next: the buffered item if there is one, else the underlying
\* iterator's next item; row is the index of the item returned (0 for None)
Peekable_next(items, p) ==
    IF p.peeked # None
    THEN [it |-> [p EXCEPT !.peeked = None], item |-> p.peeked[1],
          row |-> IF p.peeked[1] # None THEN p.pos - 1 ELSE 0]
    ELSE IF p.pos <= Len(items)
    THEN [it |-> [p EXCEPT !.pos = p.pos + 1], item |-> Some(items[p.pos]),
          row |-> p.pos]
    ELSE [it |-> p, item |-> None, row |-> 0]

Peekable_peek_unbuffered(items, p) ==
    IF p.peeked # None THEN [it |-> p, item |-> p.peeked[1]]
    ELSE IF p.pos <= Len(items)
    THEN [it |-> [p EXCEPT !.pos = p.pos + 1], item |-> Some(items[p.pos])]
    ELSE [it |-> p, item |-> None]

\* Peekable::peek: fill the buffer from the underlying iterator if it is
\* empty, and return what it holds
Peekable_peek(items, p) ==
    LET q == IF p.peeked # None THEN p
             ELSE IF p.pos <= Len(items)
             THEN [pos |-> p.pos + 1, peeked |-> Some(Some(items[p.pos]))]
             ELSE [p EXCEPT !.peeked = Some(None)]
    IN  [it |-> q, item |-> q.peeked[1]]

CodepointRange_next_not_advancing(self) ==
    IF self.range.start < self.range.end
    THEN [range |-> self.range,
          item |-> Some([self.start_record EXCEPT
                             !.codepoint = self.range.start,
                             !.name = <<>>])]
    ELSE [range |-> self.range, item |-> None]

CodepointRange_next_keep_name(self) ==
    IF self.range.start < self.range.end
    THEN [range |-> [self.range EXCEPT !.start = self.range.start + 1],
          item |-> Some([self.start_record EXCEPT
                             !.codepoint = self.range.start])]
    ELSE [range |-> self.range, item |-> None]

\* CodepointRange::next; Codepoint::from_u32(cp) cannot fail, cp being at
\* most the end row's codepoint
CodepointRange_next(self) ==
    IF self.range.start < self.range.end
    THEN [range |-> [self.range EXCEPT !.start = self.range.start + 1],
          item |-> Some([self.start_record EXCEPT
                             !.codepoint = self.range.start,
                             !.name = <<>>])]
    ELSE [range |-> self.range, item |-> None]

PairRange_either_way(row1, row2) ==
    IF row2.codepoint < row1.codepoint
    THEN [start |-> row2.codepoint, end |-> row1.codepoint + 1]
    ELSE [start |-> row1.codepoint, end |-> row2.codepoint + 1]

PairRange_exclusive(row1, row2) ==
    [start |-> row1.codepoint, end |-> row2.codepoint]

\* row1.codepoint.value()..(row2.codepoint.value() + 1)
PairRange(row1, row2) ==
    [start |-> row1.codepoint, end |-> row2.codepoint + 1]

\* UnicodeDataExpander::next on the expander self = [it, range, start_record]
\* over the rows items: the expander as the call leaves it, the value
\* returned, and the index of the row the returned record was made from.
\* Book-keeping beside the program's state: start_row is the index of the
\* row of start_record, pairs the indices of the rows taken as a range start
\* together with the row after them.
RECURSIVE UnicodeDataExpander_next(_, _)
UnicodeDataExpander_next(items, self) ==
    LET udata == CodepointRange_next([range |-> self.range,
                                      start_record |-> self.start_record])
        n1 == Peekable_next(items, self.it)
        row1 == n1.item[1]
        pk == Peekable_peek(items, n1.it)
        n2 == Peekable_next(items, pk.it)
        row2 == n2.item[1]
    IN  IF udata.item # None
        THEN [self |-> [self EXCEPT !.range = udata.range],
              ret |-> udata.item, row |-> self.start_row]
        ELSE IF n1.item = None
        THEN [self |-> [self EXCEPT !.it = n1.it], ret |-> None, row |-> 0]
        ELSE IF ~is_range_start(row1)
        THEN [self |-> [self EXCEPT !.it = n1.it],
              ret |-> Some(row1), row |-> n1.row]
        ELSE IF ~(pk.item # None /\ is_range_end(pk.item[1]))
        THEN [self |-> [self EXCEPT !.it = pk.it],
              ret |-> Some(row1), row |-> n1.row]
        ELSE UnicodeDataExpander_next(items,
                 [it |-> n2.it,
                  range |-> PairRange(row1, row2),
                  start_record |-> row1,
                  start_row |-> n1.row,
                  pairs |-> self.pairs \cup {n1.row}])

-----------------------------------------------------------------------------
(* The expander's inputs: up to MaxSrcLen rows, each one of ExpanderLines *)

MaxSrcLen == 3

ExpanderLines ==
    {Str("0041;A;Lu;0;L;;;;;N;;;;0061;"),
     Str("0044;B;Lu;0;L;<compat> 0041;;;;N;;;;;"),
     Str("0041;<X, First>;Lo;0;L;;;;;N;;;;;"),
     Str("0043;<X, Last>;Lo;0;L;;;;;N;;;;;"),
     Str("0043;<Y, First>;Lo;0;L;;;;;N;;;;;"),
     Str("0041;<Y, Last>;Lo;0;L;;;;;N;;;;;"),
     Str("0042;<First, Last>;Lo;0;L;;;;;N;;;;;"),
     Str("0042;<Z, First>;Lo;0;L;<compat> 0041;;;;N;;;;;"),
     Str("0042;Last>;Lo;0;L;;;;;N;;;;;")}

\* the record of each line, as UcdLineParser yields it
ParsedRows == [l \in ExpanderLines |-> parse_line(l).val]

SeqsUpTo(S, n) == UNION {[1..k -> S] : k \in 0..n}

\* UnicodeDataExpander::new over the rows parsed from the lines of a file
InitExpand ==
    /\ srcLines \in SeqsUpTo(ExpanderLines, MaxSrcLen)
    /\ src = [i \in 1..Len(srcLines) |-> ParsedRows[srcLines[i]]]
    /\ it = [pos |-> 1, peeked |-> None]
    /\ range = [start |-> 0, end |-> 0]
    /\ start_record = DefaultUnicodeData
    /\ out = <<>>
    /\ ret = None
    /\ prov = [start_row |-> 0, pairs |-> {}, out_rows |-> <<>>, done |-> FALSE]
    /\ ParseIdle /\ DecompIdle /\ WriterIdle /\ PackIdle

\* one call of next() by the consumer of the expander
ExpanderNext ==
    \E r \in {UnicodeDataExpander_next(src,
                 [it |-> it, range |-> range, start_record |-> start_record,
                  start_row |-> prov.start_row, pairs |-> prov.pairs])} :
        /\ it' = r.self.it
        /\ range' = r.self.range
        /\ start_record' = r.self.start_record
        /\ ret' = r.ret
        /\ out' = IF r.ret # None THEN Append(out, r.ret[1]) ELSE out
        /\ prov' = [start_row |-> r.self.start_row,
                    pairs |-> r.self.pairs,
                    out_rows |-> IF r.ret # None
                                 THEN Append(prov.out_rows, r.row)
                                 ELSE prov.out_rows,
                    done |-> (prov.done \/ r.ret = None)]
        /\ UNCHANGED <<srcLines, src>>
        /\ UNCHANGED <<parseVars, decompVars, writerVars, packVars>>

NextExpand == ExpanderNext

SpecExpand == InitExpand /\ [][NextExpand]_vars

\* The rows for the end of the expansion: up to MaxLiveLen rows, each the
\* start or the end of a range, so that a file has ranges, ranges whose end
\* is before their start, and starts and ends that stand alone.
MaxLiveLen == 3

LiveLines ==
    {Str("0041;<X, First>;Lo;0;L;;;;;N;;;;;"),
     Str("0043;<X, Last>;Lo;0;L;;;;;N;;;;;"),
     Str("0043;<Y, First>;Lo;0;L;;;;;N;;;;;"),
     Str("0041;<Y, Last>;Lo;0;L;;;;;N;;;;;")}

InitExpandLive ==
    /\ srcLines \in SeqsUpTo(LiveLines, MaxLiveLen)
    /\ src = [i \in 1..Len(srcLines) |-> ParsedRows[srcLines[i]]]
    /\ it = [pos |-> 1, peeked |-> None]
    /\ range = [start |-> 0, end |-> 0]
    /\ start_record = DefaultUnicodeData
    /\ out = <<>>
    /\ ret = None
    /\ prov = [start_row |-> 0, pairs |-> {}, out_rows |-> <<>>, done |-> FALSE]
    /\ ParseIdle /\ DecompIdle /\ WriterIdle /\ PackIdle

\* the consumer of the iterator calls next() again and again (a for loop
\* over the expander): a call that would change the state is made in the end
SpecExpandLive ==
    InitExpandLive /\ [][NextExpand]_vars /\ WF_vars(ExpanderNext)

-----------------------------------------------------------------------------
(* Properties of the expander *)

\* the rows the expander has not consumed: the row buffered by peek(), if
\* any, then the rows the underlying iterator has yet to yield
Unread ==
    (IF it.peeked # None /\ it.peeked[1] # None THEN <<it.peeked[1][1]>>
     ELSE <<>>) \o SubSeq(src, it.pos, Len(src))

RangeEmpty == range.start >= range.end

\* the record synthesized from the range start r for the codepoint c
Synth(r, c) == [r EXCEPT !.codepoint = c, !.name = <<>>]

\* the positions of out holding the records made from row i
MadeFrom(i) == {k \in 1..Len(out) : prov.out_rows[k] = i}

\* the number of codepoints from the start row r1 to the end row r2
PairSize(r1, r2) ==
    IF r2.codepoint >= r1.codepoint THEN r2.codepoint - r1.codepoint + 1
    ELSE 0

\* the records of the range started by row i that are still to be emitted
Pending(i) ==
    IF i = prov.start_row /\ ~RangeEmpty THEN range.end - range.start ELSE 0

\* C1: a row whose name is a range start, followed at once by a row whose
\* name is a range end, is replaced by one synthesized record for each
\* codepoint from the start row's to the end row's, in ascending order: each
\* is the start row with that codepoint and an empty name, the records
\* emitted so far are the first ones of the range, all of them are emitted
\* once the range is drained, and neither row of the pair is emitted itself.
C1_RangePairIsExpanded ==
    \A i \in prov.pairs :
        LET R1 == src[i]
            R2 == src[i + 1]
            K == MadeFrom(i)
        IN  /\ is_range_start(R1) /\ is_range_end(R2)
            /\ Cardinality(K) = PairSize(R1, R2) - Pending(i)
            /\ \A k \in K :
                   /\ k - MinOf(K) < Cardinality(K)
                   /\ out[k] = Synth(R1, R1.codepoint + (k - MinOf(K)))
                   /\ out[k] # R1 /\ out[k] # R2
            /\ MadeFrom(i + 1) = {}
            /\ (prov.done => Pending(i) = 0)

\* C1 witness: the three records of the pair U+0041..U+0043 have been emitted
C1_Witness ==
    \E i \in prov.pairs :
        /\ src[i + 1].codepoint = src[i].codepoint + 2
        /\ Cardinality(MadeFrom(i)) = 3
        /\ Pending(i) = 0

\* a step from a state with no range being drained, whose first unread row
\* is not the start of a pair
C2_Step ==
    (/\ RangeEmpty
     /\ Unread # <<>>
     /\ \/ ~is_range_start(Unread[1])
        \/ Len(Unread) = 1
        \/ ~is_range_end(Unread[2]))
    => (/\ ret' = Some(Unread[1])
        /\ out' = Append(out, Unread[1])
        /\ Unread' = Tail(Unread)
        /\ range' = range
        /\ start_record' = start_record)

\* C2: with no range being drained, a call that finds a row that is not a
\* range start, or a range start whose next row is not a range end or does
\* not exist, returns that row unchanged and consumes that row only: the row
\* looked at with peek() is the next one the expander handles.
C2_UnpairedPassesThrough == [][C2_Step]_vars

\* C2 witness: a range start was emitted as it stands, and the row after it,
\* which peek() had looked at, was the next record emitted
C2_Witness ==
    \E k \in 1..(Len(out) - 1) :
        /\ is_range_start(out[k])
        /\ out[k] = src[prov.out_rows[k]]
        /\ prov.out_rows[k + 1] = prov.out_rows[k] + 1
        /\ out[k + 1] = src[prov.out_rows[k + 1]]

\* the expansion of the pair r1, r2 as the specification counts it: one
\* record for each codepoint from r1's to r2's
RECURSIVE Expansion(_, _, _)
Expansion(r1, c, last) ==
    IF c > last THEN <<>>
    ELSE <<Synth(r1, c)>> \o Expansion(r1, c + 1, last)

IsPairAt(rows, i) ==
    /\ i + 1 <= Len(rows)
    /\ is_range_start(rows[i])
    /\ is_range_end(rows[i + 1])

\* the concatenation of the images of the source items of rows from row i on
RECURSIVE Image(_, _)
Image(rows, i) ==
    IF i > Len(rows) THEN <<>>
    ELSE IF IsPairAt(rows, i)
    THEN Expansion(rows[i], rows[i].codepoint, rows[i + 1].codepoint)
             \o Image(rows, i + 2)
    ELSE <<rows[i]>> \o Image(rows, i + 1)

\* the number of records the specification states: the unpaired rows plus
\* end - start + 1 for each pair
RECURSIVE StatedCount(_, _)
StatedCount(rows, i) ==
    IF i > Len(rows) THEN 0
    ELSE IF IsPairAt(rows, i)
    THEN (rows[i + 1].codepoint - rows[i].codepoint + 1)
             + StatedCount(rows, i + 2)
    ELSE 1 + StatedCount(rows, i + 1)

\* the same with an empty expansion counted as no record
RECURSIVE ExpandedCount(_, _)
ExpandedCount(rows, i) ==
    IF i > Len(rows) THEN 0
    ELSE IF IsPairAt(rows, i)
    THEN PairSize(rows[i], rows[i + 1]) + ExpandedCount(rows, i + 2)
    ELSE 1 + ExpandedCount(rows, i + 1)

\* the rows of the test expander: U+ABF9, the Hangul Syllable pair
\* U+AC00..U+D7A3, and U+D7B0
HangulLines ==
    <<Str("ABF9;MEETEI MAYEK DIGIT NINE;Nd;0;L;;9;9;9;N;;;;;"),
      Str("AC00;<Hangul Syllable, First>;Lo;0;L;;;;;N;;;;;"),
      Str("D7A3;<Hangul Syllable, Last>;Lo;0;L;;;;;N;;;;;"),
      Str("D7B0;HANGUL JUNGSEONG O-YEO;Lo;0;L;;;;;N;;;;;")>>

HangulRows == [i \in 1..Len(HangulLines) |-> parse_line(HangulLines[i]).val]

HangulCount == ExpandedCount(HangulRows, 1)

\* C3 as stated: when the expander is exhausted its output is the
\* concatenation of the images of the source items, and its length is the
\* number of unpaired rows plus end - start + 1 for each pair
C3_StatedCount ==
    prov.done =>
        /\ out = Image(src, 1)
        /\ Len(out) = StatedCount(src, 1)

\* C3 amended: when the expander is exhausted its output is the
\* concatenation of the images of the source items, in source order, and
\* its length is the number of unpaired rows plus, for each pair,
\* end - start + 1 when the end row's codepoint is not below the start
\* row's and 0 otherwise; for the four Hangul rows that length is 11174.
C3_OutputIsConcatenation ==
    /\ prov.done =>
           /\ out = Image(src, 1)
           /\ Len(out) = ExpandedCount(src, 1)
    /\ HangulCount = 11174

\* C3 witness: an exhausted expander whose rows held an unpaired row and a
\* pair whose end row lies below its start row
C3_Witness ==
    /\ prov.done
    /\ out # <<>>
    /\ \E i \in prov.pairs : src[i + 1].codepoint < src[i].codepoint
    /\ Len(out) = ExpandedCount(src, 1)
    /\ Len(out) # StatedCount(src, 1)

\* the decomposition field of a line is empty
NoDecomposition(ln) == SplitAt(trim(ln), 1)[6] = <<>>

IsSelfMapping(r) ==
    /\ is_canonical(r.decomposition)
    /\ mapping(r.decomposition) = <<r.codepoint>>

\* C4: a record whose source decomposition field is empty has a canonical
\* decomposition whose mapping is the record's own codepoint alone, for the
\* records the parser yields and for the records the expander emits.
C4_SelfMapping ==
    /\ \A i \in 1..Len(src) :
           NoDecomposition(srcLines[i]) => IsSelfMapping(src[i])
    /\ \A k \in 1..Len(out) :
           NoDecomposition(srcLines[prov.out_rows[k]]) => IsSelfMapping(out[k])

-----------------------------------------------------------------------------
(* The decomposition mapping: a decomposition is the default one or is made *)
(* by new or from_str, and codepoints are then pushed onto it.  The         *)
(* codepoints pushed are U+0041, and U+0301 at up to MaxVaried places; new  *)
(* and from_str are given up to Capacity + MaxOver codepoints.              *)

MaxVaried == 1
MaxOver == 2

DecompCodepoints == {65, 769}

DecompTags == {None, Some("compat")}

Repeated(x, n) == [i \in 1..n |-> x]

DecompTexts ==
    {pre \o JoinWith(Repeated(Str(h), n), <<" ">>) :
        pre \in {<<>>, Str("<compat> ")},
        h \in {"0041", "0301"},
        n \in 1..(Capacity + MaxOver)}
    \cup {Str(""), Str("<compat>"), Str("<bogus> 0041"), Str("0041 G")}

InitDecomp ==
    /\ decomp = DefaultDecomposition
    /\ dres = NoCall
    /\ pushed = <<>>
    /\ ParseIdle /\ ExpandIdle /\ WriterIdle /\ PackIdle

\* decomp.push(cp)
DecompPush(cp) ==
    LET r == push(decomp, cp)
    IN  /\ \/ cp = 65
           \/ Cardinality({i \in 1..Len(pushed) : pushed[i] # 65}) < MaxVaried
        /\ decomp' = r.self
        /\ dres' = [op |-> "push", arg |-> cp, n |-> 1,
                    ok |-> r.ok]
        /\ pushed' = IF r.ok THEN Append(pushed, cp) ELSE pushed
        /\ UNCHANGED <<parseVars, expandVars, writerVars, packVars>>

\* decomp = UnicodeDataDecomposition::new(tag, cps)?
DecompNew(tag, cps) ==
    LET r == UnicodeDataDecomposition_new(tag, cps)
    IN  /\ dres = NoCall
        /\ decomp' = IF r.ok THEN r.val ELSE decomp
        /\ dres' = [op |-> "new", arg |-> cps, n |-> Len(cps), ok |-> r.ok]
        /\ pushed' = IF r.ok THEN cps ELSE pushed
        /\ UNCHANGED <<parseVars, expandVars, writerVars, packVars>>

\* decomp = s.parse::<UnicodeDataDecomposition>()?
DecompFromStr(s) ==
    LET r == UnicodeDataDecomposition_from_str(s)
        caps == WITH_TAG(s)
        runs == IF caps = None THEN <<>>
                ELSE CHARS_find_iter(caps[1].rest, 1)
    IN  /\ dres = NoCall
        /\ decomp' = IF r.ok THEN r.val ELSE decomp
        /\ dres' = [op |-> "from_str", arg |-> s, n |-> Len(runs), ok |-> r.ok]
        /\ pushed' = IF r.ok
                     THEN [i \in 1..Len(runs) |-> Codepoint_from_str(runs[i]).val]
                     ELSE pushed
        /\ UNCHANGED <<parseVars, expandVars, writerVars, packVars>>

NextDecomp ==
    \/ \E cp \in DecompCodepoints : DecompPush(cp)
    \/ \E tag \in DecompTags, cp \in DecompCodepoints,
          n \in 0..(Capacity + MaxOver) : DecompNew(tag, Repeated(cp, n))
    \/ \E s \in DecompTexts : DecompFromStr(s)

SpecDecomp == InitDecomp /\ [][NextDecomp]_vars

-----------------------------------------------------------------------------
(* Properties of the decomposition mapping *)

\* the ceiling, in every state
C8_Bounded ==
    /\ decomp.len <= 18
    /\ Len(decomp.mapping) = 18
    /\ mapping(decomp) = pushed
    /\ (dres.op \in {"new", "from_str"} /\ dres.n >= 19) => ~dres.ok

\* what a push does
C8_PushStep ==
    dres'.op = "push" =>
        IF decomp.len < 18
        THEN /\ dres'.ok
             /\ decomp' = [decomp EXCEPT !.mapping[decomp.len + 1] = dres'.arg,
                                         !.len = decomp.len + 1]
        ELSE /\ ~dres'.ok
             /\ decomp' = decomp

\* C8: a decomposition holds at most 18 codepoints: a push with len < 18
\* puts the codepoint at position len and adds one to len, a push with
\* len = 18 is an error and leaves the decomposition as it was; so len never
\* exceeds 18, the first len entries are the codepoints pushed with success,
\* in order, and new or from_str given 19 or more codepoints is an error.
C8_CapacityIsHardCeiling == []C8_Bounded /\ [][C8_PushStep]_vars

\* C8 witness: a push onto a decomposition of 18 codepoints, U+0301 among
\* them, was refused
C8_Witness ==
    /\ dres.op = "push"
    /\ ~dres.ok
    /\ decomp.len = 18
    /\ \E i \in 1..18 : decomp.mapping[i] = 769

-----------------------------------------------------------------------------
(* Writer: the tables of one codepoint map, written by one Writer *)

U16Max == 65535
Columns == 79

\* u64: a 64-bit unsigned integer is four 16-bit limbs, the least
\* significant first, so that every value of the type can be written
Limb == U16Max + 1

\* n as u64, for a number below 2^31
u64(n) == <<n % Limb, (n \div Limb) % Limb, 0, 0>>

U64Zero == <<0, 0, 0, 0>>

\* ::std::u32::MAX as u64
U32MaxAsU64 == <<U16Max, U16Max, 0, 0>>

\* u64::MAX
U64MaxValue == <<U16Max, U16Max, U16Max, U16Max>>

\* a <= b: the most significant limb in which they differ decides
U64Le(a, b) ==
    LET d == {i \in 1..4 : a[i] # b[i]}
    IN  d = {} \/ a[MaxOf(d)] < b[MaxOf(d)]

\* Iterator::max over a non-empty set of u64
U64MaxOf(S) == CHOOSE x \in S : \A y \in S : U64Le(y, x)

\* limb j of a, 0 beyond the four limbs
U64Limb(a, j) == IF j >= 1 /\ j <= 4 THEN a[j] ELSE 0

\* a << k for k < 64: the bits shifted beyond bit 63 are lost
U64Shl(a, k) ==
    LET q == k \div 16
        p == 2 ^ (k % 16)
    IN  [j \in 1..4 |->
            ((U64Limb(a, j - q) * p) % Limb)
                + ((U64Limb(a, j - q - 1) * p) \div Limb)]

\* a >> k for k < 64
U64Shr(a, k) ==
    LET q == k \div 16
        p == 2 ^ (k % 16)
    IN  [j \in 1..4 |->
            (U64Limb(a, j + q) \div p)
                + ((U64Limb(a, j + q + 1) % p) * (Limb \div p))]

RECURSIVE BitOr(_, _)
BitOr(x, y) ==
    IF x = 0 THEN y
    ELSE IF y = 0 THEN x
    ELSE (IF x % 2 = 1 \/ y % 2 = 1 THEN 1 ELSE 0)
             + 2 * BitOr(x \div 2, y \div 2)

RECURSIVE BitAnd(_, _)
BitAnd(x, y) ==
    IF x = 0 \/ y = 0 THEN 0
    ELSE (IF x % 2 = 1 /\ y % 2 = 1 THEN 1 ELSE 0)
             + 2 * BitAnd(x \div 2, y \div 2)

\* a | b and a & b
U64Or(a, b) == [j \in 1..4 |-> BitOr(a[j], b[j])]
U64And(a, b) == [j \in 1..4 |-> BitAnd(a[j], b[j])]

\* a divided by 10, limb by limb from the most significant: the quotient
\* and the remainder
U64DivMod10(a) ==
    LET r4 == a[4] % 10
        c3 == r4 * Limb + a[3]
        c2 == (c3 % 10) * Limb + a[2]
        c1 == (c2 % 10) * Limb + a[1]
    IN  [quot |-> <<c1 \div 10, c2 \div 10, c3 \div 10, a[4] \div 10>>,
         rem |-> c1 % 10]

\* "{}" of a u64
RECURSIVE U64_fmt(_)
U64_fmt(a) ==
    IF U64Le(a, u64(9)) THEN <<DigitChar(a[1])>>
    ELSE U64_fmt(U64DivMod10(a).quot) \o <<DigitChar(U64DivMod10(a).rem)>>

AsciiLower == Str("abcdefghijklmnopqrstuvwxyz")
AsciiUpper == Str("ABCDEFGHIJKLMNOPQRSTUVWXYZ")

make_ascii_uppercase(s) ==
    [i \in 1..Len(s) |->
        IF \E j \in 1..Len(AsciiLower) : AsciiLower[j] = s[i]
        THEN AsciiUpper[CHOOSE j \in 1..Len(AsciiLower) : AsciiLower[j] = s[i]]
        ELSE s[i]]

make_ascii_lowercase(s) ==
    [i \in 1..Len(s) |->
        IF \E j \in 1..Len(AsciiUpper) : AsciiUpper[j] = s[i]
        THEN AsciiLower[CHOOSE j \in 1..Len(AsciiUpper) : AsciiUpper[j] = s[i]]
        ELSE s[i]]

rust_const_name(s) == make_ascii_uppercase(s)
rust_module_name(s) == make_ascii_lowercase(s)

u32_key_little_endian(cp) ==
    <<cp % 256, (cp \div 256) % 256, (cp \div 65536) % 256,
      (cp \div 16777216) % 256>>

\* BE::write_u32: the four bytes of cp, most significant first
u32_key(cp) ==
    <<(cp \div 16777216) % 256, (cp \div 65536) % 256,
      (cp \div 256) % 256, cp % 256>>

smallest_unsigned_type_exclusive(n) ==
    IF ~U64Le(u64(U8Max), n) THEN Str("u8")
    ELSE IF ~U64Le(u64(U16Max), n) THEN Str("u16")
    ELSE IF ~U64Le(U32MaxAsU64, n) THEN Str("u32")
    ELSE Str("u64")

smallest_unsigned_type(n) ==
    IF U64Le(n, u64(U8Max)) THEN Str("u8")
    ELSE IF U64Le(n, u64(U16Max)) THEN Str("u16")
    ELSE IF U64Le(n, U32MaxAsU64) THEN Str("u32")
    ELSE Str("u64")

\* the items of the set S, all within lo..hi, in ascending order: the lower
\* half of the interval, then the upper half
RECURSIVE AscendingIn(_, _, _)
AscendingIn(S, lo, hi) ==
    IF S = {} THEN <<>>
    ELSE IF lo = hi THEN <<lo>>
    ELSE LET mid == (lo + hi) \div 2
         IN  AscendingIn({x \in S : x <= mid}, lo, mid)
                 \o AscendingIn({x \in S : x > mid}, mid + 1, hi)

\* the items of a set of numbers in ascending order, as the iterator of a
\* BTreeSet or of the keys of a BTreeMap yields them
Ascending(S) ==
    IF S = {} THEN <<>>
    ELSE AscendingIn(S, MinOf(S), 0 - MinOf({0 - x : x \in S}))

RECURSIVE Descending(_)
Descending(S) ==
    IF S = {} THEN <<>> ELSE <<MaxOf(S)>> \o Descending(S \ {MaxOf(S)})

\* codepoints.iter().cloned()
SetEntries(codepoints) == Ascending(codepoints)

MapEntries_descending(map) ==
    LET ks == Descending(DOMAIN map)
    IN  [i \in 1..Len(ks) |-> <<ks[i], map[ks[i]]>>]

\* map.iter().map(|(&k, &v)| (k, v))
MapEntries(map) ==
    LET ks == Ascending(DOMAIN map)
    IN  [i \in 1..Len(ks) |-> <<ks[i], map[ks[i]]>>]

RECURSIVE to_range_values_ignoring_value(_, _)
to_range_values_ignoring_value(entries, acc) ==
    IF entries = <<>> THEN acc
    ELSE LET k == Head(entries)[1]
             v == Head(entries)[2]
             last == acc[Len(acc)]
         IN  IF acc # <<>> /\ last[2] + 1 = k
             THEN to_range_values_ignoring_value(Tail(entries),
                      [acc EXCEPT ![Len(acc)] = <<last[1], k, last[3]>>])
             ELSE to_range_values_ignoring_value(Tail(entries),
                      Append(acc, <<k, k, v>>))

RECURSIVE to_range_values_bridging_gap(_, _)
to_range_values_bridging_gap(entries, acc) ==
    IF entries = <<>> THEN acc
    ELSE LET breaks == {i \in 1..(Len(entries) - 1) :
                           \/ entries[i + 1][1] # entries[i][1] + 2
                           \/ entries[i + 1][2] # entries[i][2]}
             n == IF breaks = {} THEN Len(entries) ELSE MinOf(breaks)
         IN  to_range_values_bridging_gap(
                 SubSeq(entries, n + 1, Len(entries)),
                 Append(acc, <<entries[1][1], entries[n][1], entries[1][2]>>))

\* util::to_range_values: one scan of the entries from left to right; an
\* entry whose codepoint follows the last range's end and whose value is the
\* last range's value extends that range, any other entry starts a range.
\* One step takes the whole run of entries that make the next range.
RECURSIVE to_range_values(_, _)
to_range_values(entries, acc) ==
    IF entries = <<>> THEN acc
    ELSE LET breaks == {i \in 1..(Len(entries) - 1) :
                           \/ entries[i + 1][1] # entries[i][1] + 1
                           \/ entries[i + 1][2] # entries[i][2]}
             n == IF breaks = {} THEN Len(entries) ELSE MinOf(breaks)
         IN  to_range_values(
                 SubSeq(entries, n + 1, Len(entries)),
                 Append(acc, <<entries[1][1], entries[n][1], entries[1][2]>>))

\* util::to_ranges: the same scan over codepoints without values
RECURSIVE to_ranges(_, _)
to_ranges(cps, acc) ==
    IF cps = <<>> THEN acc
    ELSE LET breaks == {i \in 1..(Len(cps) - 1) : cps[i + 1] # cps[i] + 1}
             n == IF breaks = {} THEN Len(cps) ELSE MinOf(breaks)
         IN  to_ranges(SubSeq(cps, n + 1, Len(cps)),
                       Append(acc, <<cps[1], cps[n]>>))

\* str::trim_right
trim_right(s) ==
    LET keep == {i \in 1..Len(s) : s[i] \notin WS}
    IN  IF keep = {} THEN <<>> ELSE SubSeq(s, 1, MaxOf(keep))

\* LineWriter::flush_line: the buffer, if not empty, is written as a line
\* without its trailing white space
flush_line(w) ==
    IF w.line = <<>> THEN w
    ELSE [out |-> Append(w.out, trim_right(w.line)), line |-> <<>>]

\* LineWriter::write_str: the text is added to the buffer, after the indent
\* when the buffer is empty; a buffer the text does not fit in is written
\* out first
write_str(w, s) ==
    LET w1 == IF Len(w.line) + Len(s) > Columns THEN flush_line(w) ELSE w
        w2 == IF w1.line = <<>> THEN [w1 EXCEPT !.line = Str("  ")] ELSE w1
    IN  [w2 EXCEPT !.line = w2.line \o s]

\* writeln!(self.wtr, ...): io::Write::write writes the buffer out, then the
\* text, here one line
writeln(w, s) ==
    LET w1 == flush_line(w)
    IN  [w1 EXCEPT !.out = Append(w1.out, s)]

RECURSIVE writelns(_, _)
writelns(w, ls) ==
    IF ls = <<>> THEN w ELSE writelns(writeln(w, Head(ls)), Tail(ls))

\* the command line, env::current_exe() and env::args_os()
Argv == <<Str("ucd-generate"), Str("general-category")>>

header_always_writing(self) ==
    [self EXCEPT
         !.wtr = writelns(self.wtr,
             <<Str("#![allow(dead_code)]"),
               <<>>,
               Str("// DO NOT EDIT THIS FILE. IT WAS AUTOMATICALLY GENERATED BY:"),
               Str("//"),
               Str("//  ") \o JoinWith(Argv, <<" ">>),
               Str("//"),
               Str("// ucd-generate is available on crates.io.")>>),
         !.wrote_header = TRUE]

\* Writer::header on self = [wtr, wrote_header, files]
header(self) ==
    IF self.wrote_header THEN self
    ELSE [self EXCEPT
              !.wtr = writelns(self.wtr,
                  <<Str("#![allow(dead_code)]"),
                    <<>>,
                    Str("// DO NOT EDIT THIS FILE. IT WAS AUTOMATICALLY GENERATED BY:"),
                    Str("//"),
                    Str("//  ") \o JoinWith(Argv, <<" ">>),
                    Str("//"),
                    Str("// ucd-generate is available on crates.io.")>>),
              !.wrote_header = TRUE]

\* Writer::separator: write!(self.wtr, "\n")
separator(self) == [self EXCEPT !.wtr = writeln(self.wtr, <<>>)]

\* char::from_u32: None for a surrogate and beyond U+10FFFF
char_from_u32(cp) ==
    IF (cp >= 55296 /\ cp <= 57343) \/ cp > MaxCodepoint THEN None
    ELSE Some(cp)

\* the printable characters of ASCII, from the space (32) to '~' (126); the
\* grave accent (96) has no place in a string here, and no text of the
\* model holds it
Printable ==
    Str(" !\"#$%&'()*+,-./0123456789:;<=>?@ABCDEFGHIJKLMNOPQRSTUVWXYZ")
        \o Str("[\\]^_") \o <<"">> \o Str("abcdefghijklmnopqrstuvwxyz{|}~")

\* a String is the sequence of its chars, each a scalar value; Chars gives
\* the String of a text of printable ASCII characters
Chars(text) ==
    [i \in 1..Len(text) |->
        31 + (CHOOSE j \in 1..Len(Printable) : Printable[j] = text[i])]

\* the UTF-8 encoding of a char
utf8(c) ==
    IF c < 128 THEN <<c>>
    ELSE IF c < 2048 THEN <<192 + (c \div 64), 128 + (c % 64)>>
    ELSE IF c < 65536
    THEN <<224 + (c \div 4096), 128 + ((c \div 64) % 64), 128 + (c % 64)>>
    ELSE <<240 + (c \div 262144), 128 + ((c \div 4096) % 64),
           128 + ((c \div 64) % 64), 128 + (c % 64)>>

\* str::as_bytes: the UTF-8 encoding of the chars, in order
RECURSIVE as_bytes(_)
as_bytes(s) == IF s = <<>> THEN <<>> ELSE utf8(Head(s)) \o as_bytes(Tail(s))

\* char::escape_debug: a printable character is written as it is, a quote
\* or a backslash after a backslash, any other character as \u{..}.  (The
\* chars of the model beyond '~' are not printable: U+0080 is a control,
\* U+D7FE and U+D7FF are unassigned, U+E000 is private use.)
escape_debug(c) ==
    CASE c = 9 -> Str("\\t")
      [] c = 10 -> Str("\\n")
      [] c = 13 -> Str("\\r")
      [] c \in {34, 39, 92} -> <<"\\", Printable[c - 31]>>
      [] c >= 32 /\ c <= 126 /\ c \notin {34, 39, 92} -> <<Printable[c - 31]>>
      [] OTHER -> Str("\\u{") \o make_ascii_lowercase(RadixDigits(c, 16))
                      \o Str("}")

\* format!("{:?}", c) for a char
char_debug(c) == <<"'">> \o escape_debug(c) \o <<"'">>

RECURSIVE escape_debug_all(_)
escape_debug_all(s) ==
    IF s = <<>> THEN <<>> ELSE escape_debug(Head(s)) \o escape_debug_all(Tail(s))

\* format!("{:?}", s) for a str
str_debug(s) == <<"\"">> \o escape_debug_all(s) \o <<"\"">>

\* a panic: the call does not return
Panic(m) == [ok |-> FALSE, panic |-> m]

\* for (i, &b) in s.as_bytes().iter().enumerate() { assert!(i <= 7);
\* value |= (b as u64) << (8 * i as u64); }, from the byte of index i on
RECURSIVE pack_str_big_endian_loop(_, _, _)
pack_str_big_endian_loop(bytes, i, value) ==
    IF i >= Len(bytes) THEN Ok(value)
    ELSE IF i > 7 THEN Panic("assertion failed: i <= 7")
    ELSE pack_str_big_endian_loop(bytes, i + 1,
             U64Or(value, U64Shl(u64(bytes[i + 1]), 8 * (7 - i))))

RECURSIVE pack_str_loop(_, _, _)
pack_str_loop(bytes, i, value) ==
    IF i >= Len(bytes) THEN Ok(value)
    ELSE IF i > 7 THEN Panic("assertion failed: i <= 7")
    ELSE pack_str_loop(bytes, i + 1,
             U64Or(value, U64Shl(u64(bytes[i + 1]), 8 * i)))

pack_str_unchecked_length(s) ==
    IF \E i \in 1..Len(s) : s[i] = 0
    THEN Err(Str("cannot encode string ") \o str_debug(s)
                 \o Str(" (contains NUL byte)"))
    ELSE pack_str_loop(as_bytes(s), 0, U64Zero)

\* pack_str
pack_str(s) ==
    IF Len(as_bytes(s)) > 8
    THEN Err(Str("cannot encode string ") \o str_debug(s) \o Str(" (too long)"))
    ELSE IF \E i \in 1..Len(s) : s[i] = 0
    THEN Err(Str("cannot encode string ") \o str_debug(s)
                 \o Str(" (contains NUL byte)"))
    ELSE pack_str_loop(as_bytes(s), 0, U64Zero)

\* tests::unpack_str: while the value is not 0, its low byte is pushed as
\* a char (the char of that number) and the value is shifted right by 8
RECURSIVE unpack_str(_)
unpack_str(encoded) ==
    IF encoded = U64Zero THEN <<>>
    ELSE <<U64And(encoded, u64(U8Max))[1] % (U8Max + 1)>>
             \o unpack_str(U64Shr(encoded, 8))

rust_codepoint_unchecked(o, cp) ==
    IF o.char_literals THEN Some(char_debug(cp)) ELSE Some(FmtDecimal(cp))

rust_codepoint(o, cp) ==
    IF o.char_literals
    THEN IF char_from_u32(cp) = None THEN None
         ELSE Some(char_debug(char_from_u32(cp)[1]))
    ELSE Some(FmtDecimal(cp))

rust_codepoint_type(o) == IF o.char_literals THEN Str("char") ELSE Str("u32")

\* the order of byte strings: a is before b
RECURSIVE KeyLess(_, _)
KeyLess(a, b) ==
    IF b = <<>> THEN FALSE
    ELSE IF a = <<>> THEN TRUE
    ELSE IF Head(a) # Head(b) THEN Head(a) < Head(b)
    ELSE KeyLess(Tail(a), Tail(b))

\* SetBuilder::extend_iter and MapBuilder::insert: the keys have to come in
\* strictly ascending order; the FST holds the entries it was given
FstBuilder(entries) ==
    IF \A i \in 1..(Len(entries) - 1) : KeyLess(entries[i].key, entries[i + 1].key)
    THEN Ok(entries)
    ELSE Err("out of order")

\* Writer::fst: the FST is written to a file of fst_dir, and a lazy_static
\* that includes the file is written to wtr
fst(self, const_name, fstval, map) ==
    LET fst_file_name == rust_module_name(const_name) \o Str(".fst")
        ty == IF map THEN Str("Map") ELSE Str("Set")
    IN  [self EXCEPT
             !.files = {f \in self.files : f.name # fst_file_name}
                       \cup {[name |-> fst_file_name, fst |-> fstval]},
             !.wtr = writelns(self.wtr,
                 <<Str("lazy_static! {"),
                   Str("  pub static ref ") \o const_name \o Str(": ::fst::")
                       \o ty \o Str(" = "),
                   Str("    ::fst::") \o ty
                       \o Str("::from(::fst::raw::Fst::from_static_slice("),
                   Str("      include_bytes!(\"") \o fst_file_name
                       \o Str("\")).unwrap());"),
                   Str("}")>>)]

\* for &(start, end) in table { ... write_str ... }: a range is written when
\* both its ends have a literal
RECURSIVE ranges_slice_rows(_, _, _)
ranges_slice_rows(w, o, table) ==
    IF table = <<>> THEN w
    ELSE LET start == rust_codepoint(o, Head(table)[1])
             end == rust_codepoint(o, Head(table)[2])
         IN  ranges_slice_rows(
                 IF start # None /\ end # None
                 THEN write_str(w, <<"(">> \o start[1] \o Str(", ") \o end[1]
                                   \o Str("), "))
                 ELSE w,
                 o, Tail(table))

\* Writer::ranges_slice
ranges_slice(self, o, name, table) ==
    LET ty == rust_codepoint_type(o)
        w1 == writeln(self.wtr,
                  Str("pub const ") \o name \o Str(": &'static [(") \o ty
                  \o Str(", ") \o ty \o Str(")] = &["))
    IN  [self EXCEPT !.wtr = writeln(ranges_slice_rows(w1, o, table), Str("];"))]

RECURSIVE ranges_to_unsigned_integer_slice_rows(_, _, _)
ranges_to_unsigned_integer_slice_rows(w, o, table) ==
    IF table = <<>> THEN w
    ELSE LET start == rust_codepoint(o, Head(table)[1])
             end == rust_codepoint(o, Head(table)[2])
         IN  ranges_to_unsigned_integer_slice_rows(
                 IF start # None /\ end # None
                 THEN write_str(w, <<"(">> \o start[1] \o Str(", ") \o end[1]
                                   \o Str(", ") \o U64_fmt(Head(table)[3])
                                   \o Str("), "))
                 ELSE w,
                 o, Tail(table))

\* Writer::ranges_to_unsigned_integer_slice
ranges_to_unsigned_integer_slice(self, o, name, table) ==
    LET cp_ty == rust_codepoint_type(o)
        num_ty == IF table = <<>> THEN Str("u8")
                  ELSE smallest_unsigned_type(
                           U64MaxOf({table[i][3] : i \in 1..Len(table)}))
        w1 == writeln(self.wtr,
                  Str("pub const ") \o name \o Str(": &'static [(") \o cp_ty
                  \o Str(", ") \o cp_ty \o Str(", ") \o num_ty \o Str(")] = &["))
    IN  [self EXCEPT
             !.wtr = writeln(ranges_to_unsigned_integer_slice_rows(w1, o, table),
                             Str("];"))]

\* self.wtr.flush()
flush(self) == [self EXCEPT !.wtr = flush_line(self.wtr)]

\* Writer::ranges on self = [wtr, wrote_header, files] with the options o:
\* self as the call leaves it, whether it returned Ok, and the range list
\* it made
Writer_ranges(self, o, name, codepoints) ==
    LET s1 == separator(header(self))
        const == rust_const_name(name)
        entries == SetEntries(codepoints)
        set == FstBuilder([i \in 1..Len(entries) |-> [key |-> u32_key(entries[i])]])
        rs == to_ranges(entries, <<>>)
    IN  IF o.fst_dir
        THEN IF ~set.ok THEN [self |-> s1, ok |-> FALSE, ranges |-> <<>>]
             ELSE [self |-> flush(fst(s1, const, set.val, FALSE)), ok |-> TRUE,
                   ranges |-> <<>>]
        ELSE [self |-> flush(ranges_slice(s1, o, const, rs)), ok |-> TRUE,
              ranges |-> rs]

\* Writer::ranges_to_unsigned_integer, likewise
Writer_ranges_to_unsigned_integer(self, o, name, map) ==
    LET s1 == separator(header(self))
        const == rust_const_name(name)
        entries == MapEntries(map)
        m == FstBuilder([i \in 1..Len(entries) |->
                            [key |-> u32_key(entries[i][1]),
                             value |-> entries[i][2]]])
        rs == to_range_values(entries, <<>>)
    IN  IF o.fst_dir
        THEN IF ~m.ok THEN [self |-> s1, ok |-> FALSE, ranges |-> <<>>]
             ELSE [self |-> flush(fst(s1, const, m.val, TRUE)), ok |-> TRUE,
                   ranges |-> <<>>]
        ELSE [self |-> flush(ranges_to_unsigned_integer_slice(s1, o, const, rs)),
              ok |-> TRUE, ranges |-> rs]

\* BTreeMap<String, _>::keys: the keys in ascending order of their bytes
RECURSIVE KeysDescending(_)
KeysDescending(K) ==
    IF K = {} THEN <<>>
    ELSE LET k == CHOOSE a \in K :
                      \A b \in K \ {a} : KeyLess(as_bytes(b), as_bytes(a))
         IN  <<k>> \o KeysDescending(K \ {k})

RECURSIVE Keys(_)
Keys(K) ==
    IF K = {} THEN <<>>
    ELSE LET k == CHOOSE a \in K :
                      \A b \in K \ {a} : KeyLess(as_bytes(a), as_bytes(b))
         IN  <<k>> \o Keys(K \ {k})

BTreeMap_insert_keeping_first(map, k, v) ==
    [x \in DOMAIN map \cup {k} |-> IF x \in DOMAIN map THEN map[x] ELSE v]

\* BTreeMap::insert: the value of a key already in the map is replaced
BTreeMap_insert(map, k, v) ==
    [x \in DOMAIN map \cup {k} |-> IF x = k THEN v ELSE map[x]]

\* map.extend(iter): every item of the iterator is inserted, in order
RECURSIVE extend(_, _)
extend(map, items) ==
    IF items = <<>> THEN map
    ELSE extend(BTreeMap_insert(map, Head(items)[1], Head(items)[2]),
                Tail(items))

RECURSIVE ranges_to_enum_map_one_based(_, _, _, _)
ranges_to_enum_map_one_based(enum_map, keys, i, map) ==
    IF i >= Len(keys) THEN map
    ELSE LET set == SetEntries(enum_map[keys[i + 1]])
         IN  ranges_to_enum_map_one_based(enum_map, keys, i + 1,
                 extend(map, [j \in 1..Len(set) |-> <<set[j], u64(i + 1)>>]))

\* for (i, (_, ref set)) in enum_map.iter().enumerate() { map.extend(...) }:
\* the codepoints of the i-th variant are given the value i, the variants
\* from the i-th on being keys[i + 1 ..]
RECURSIVE ranges_to_enum_map(_, _, _, _)
ranges_to_enum_map(enum_map, keys, i, map) ==
    IF i >= Len(keys) THEN map
    ELSE LET set == SetEntries(enum_map[keys[i + 1]])
         IN  ranges_to_enum_map(enum_map, keys, i + 1,
                 extend(map, [j \in 1..Len(set) |-> <<set[j], u64(i)>>]))

\* for variant in enum_map.keys() { self.wtr.write_str(...) }
RECURSIVE ranges_to_enum_variants(_, _)
ranges_to_enum_variants(w, keys) ==
    IF keys = <<>> THEN w
    ELSE ranges_to_enum_variants(
             write_str(w, str_debug(Head(keys)) \o Str(", ")), Tail(keys))

\* Writer::ranges_to_enum, likewise
Writer_ranges_to_enum(self, o, name, enum_map) ==
    LET s1 == separator(header(self))
        keys == Keys(DOMAIN enum_map)
        w1 == writeln(s1.wtr,
                  Str("pub const ") \o rust_const_name(name)
                  \o Str("_ENUM: &'static [&'static str] = &["))
        w2 == writeln(ranges_to_enum_variants(w1, keys), Str("];"))
        map == ranges_to_enum_map(enum_map, keys, 0, <<>>)
        r == Writer_ranges_to_unsigned_integer(
                 [s1 EXCEPT !.wtr = w2], o, name, map)
    IN  IF ~r.ok THEN r
        ELSE [self |-> flush(r.self), ok |-> TRUE, ranges |-> r.ranges]

\* for &(cp, ref s) in table { ... write_str ... }: an entry is written when
\* its codepoint has a literal
RECURSIVE codepoint_to_string_slice_rows(_, _, _)
codepoint_to_string_slice_rows(w, o, table) ==
    IF table = <<>> THEN w
    ELSE LET cp == rust_codepoint(o, Head(table)[1])
         IN  codepoint_to_string_slice_rows(
                 IF cp # None
                 THEN write_str(w, <<"(">> \o cp[1] \o Str(", ")
                                   \o str_debug(Head(table)[2]) \o Str("), "))
                 ELSE w,
                 o, Tail(table))

\* Writer::codepoint_to_string_slice
codepoint_to_string_slice(self, o, name, table) ==
    LET ty == rust_codepoint_type(o)
        w1 == writeln(self.wtr,
                  Str("pub const ") \o name \o Str(": &'static [(") \o ty
                  \o Str(", &'static str)] = &["))
    IN  [self EXCEPT
             !.wtr = writeln(codepoint_to_string_slice_rows(w1, o, table),
                             Str("];"))]

RECURSIVE pack_entries_skipping_refused(_, _)
pack_entries_skipping_refused(entries, acc) ==
    IF entries = <<>> THEN Ok(acc)
    ELSE LET v == pack_str(Head(entries)[2])
         IN  pack_entries_skipping_refused(Tail(entries),
                 IF ~v.ok THEN acc
                 ELSE Append(acc, [key |-> u32_key(Head(entries)[1]),
                                   value |-> v.val]))

\* for (&k, v) in map { let v = pack_str(v)?; builder.insert(u32_key(k), v)?; }
\* the entries packed so far being acc: the packed entries, or the error of
\* the first string pack_str refuses
RECURSIVE pack_entries(_, _)
pack_entries(entries, acc) ==
    IF entries = <<>> THEN Ok(acc)
    ELSE LET v == pack_str(Head(entries)[2])
         IN  IF ~v.ok THEN v
             ELSE pack_entries(Tail(entries),
                      Append(acc, [key |-> u32_key(Head(entries)[1]),
                                   value |-> v.val]))

Writer_codepoint_to_string_always_packing(self, o, name, map) ==
    LET s1 == separator(header(self))
        const == rust_const_name(name)
        entries == MapEntries(map)
        vs == pack_entries(entries, <<>>)
        m == FstBuilder(vs.val)
    IN  IF ~vs.ok THEN [self |-> s1, ok |-> FALSE, ranges |-> <<>>]
        ELSE IF o.fst_dir
        THEN IF ~m.ok THEN [self |-> s1, ok |-> FALSE, ranges |-> <<>>]
             ELSE [self |-> flush(fst(s1, const, m.val, TRUE)), ok |-> TRUE,
                   ranges |-> <<>>]
        ELSE [self |-> flush(codepoint_to_string_slice(s1, o, const, entries)),
              ok |-> TRUE, ranges |-> <<>>]

\* Writer::codepoint_to_string, likewise; it makes no range list
Writer_codepoint_to_string(self, o, name, map) ==
    LET s1 == separator(header(self))
        const == rust_const_name(name)
        entries == MapEntries(map)
        vs == pack_entries(entries, <<>>)
        m == FstBuilder(vs.val)
    IN  IF o.fst_dir
        THEN IF ~vs.ok THEN [self |-> s1, ok |-> FALSE, ranges |-> <<>>]
             ELSE IF ~m.ok THEN [self |-> s1, ok |-> FALSE, ranges |-> <<>>]
             ELSE [self |-> flush(fst(s1, const, m.val, TRUE)), ok |-> TRUE,
                   ranges |-> <<>>]
        ELSE [self |-> flush(codepoint_to_string_slice(s1, o, const, entries)),
              ok |-> TRUE, ranges |-> <<>>]

\* map.iter() of a BTreeMap<String, _>: the entries in ascending order of the
\* bytes of their keys
StringKeyEntries(map) ==
    LET ks == Keys(DOMAIN map)
    IN  [i \in 1..Len(ks) |-> <<ks[i], map[ks[i]]>>]

\* for &(ref s, cp) in table { ... write_str ... }: an entry is written when
\* its codepoint has a literal
RECURSIVE string_to_codepoint_slice_rows(_, _, _)
string_to_codepoint_slice_rows(w, o, table) ==
    IF table = <<>> THEN w
    ELSE LET cp == rust_codepoint(o, Head(table)[2])
         IN  string_to_codepoint_slice_rows(
                 IF cp # None
                 THEN write_str(w, <<"(">> \o str_debug(Head(table)[1])
                                   \o Str(", ") \o cp[1] \o Str("), "))
                 ELSE w,
                 o, Tail(table))

\* Writer::string_to_codepoint_slice
string_to_codepoint_slice(self, o, name, table) ==
    LET ty == rust_codepoint_type(o)
        w1 == writeln(self.wtr,
                  Str("pub const ") \o name \o Str(": &'static [(&'static str, ")
                  \o ty \o Str(")] = &["))
    IN  [self EXCEPT
             !.wtr = writeln(string_to_codepoint_slice_rows(w1, o, table),
                             Str("];"))]

\* Writer::string_to_codepoint on self with the options o, as Writer_ranges
Writer_string_to_codepoint(self, o, name, map) ==
    LET s1 == separator(header(self))
        const == rust_const_name(name)
        entries == StringKeyEntries(map)
        m == FstBuilder([i \in 1..Len(entries) |->
                            [key |-> as_bytes(entries[i][1]),
                             value |-> u64(entries[i][2])]])
    IN  IF o.fst_dir
        THEN IF ~m.ok THEN [self |-> s1, ok |-> FALSE, ranges |-> <<>>]
             ELSE [self |-> flush(fst(s1, const, m.val, TRUE)), ok |-> TRUE,
                   ranges |-> <<>>]
        ELSE [self |-> flush(string_to_codepoint_slice(s1, o, const, entries)),
              ok |-> TRUE, ranges |-> <<>>]

\* for &(ref s, n) in table { ... write_str ... }
RECURSIVE string_to_u64_slice_rows(_, _)
string_to_u64_slice_rows(w, table) ==
    IF table = <<>> THEN w
    ELSE string_to_u64_slice_rows(
             write_str(w, <<"(">> \o str_debug(Head(table)[1]) \o Str(", ")
                           \o U64_fmt(Head(table)[2]) \o Str("), ")),
             Tail(table))

\* Writer::string_to_u64_slice
string_to_u64_slice(self, name, table) ==
    LET w1 == writeln(self.wtr,
                  Str("pub const ") \o name
                  \o Str(": &'static [(&'static str, u64)] = &["))
    IN  [self EXCEPT
             !.wtr = writeln(string_to_u64_slice_rows(w1, table), Str("];"))]

\* Writer::string_to_u64, likewise
Writer_string_to_u64(self, o, name, map) ==
    LET s1 == separator(header(self))
        const == rust_const_name(name)
        entries == StringKeyEntries(map)
        m == FstBuilder([i \in 1..Len(entries) |->
                            [key |-> as_bytes(entries[i][1]),
                             value |-> entries[i][2]]])
    IN  IF o.fst_dir
        THEN IF ~m.ok THEN [self |-> s1, ok |-> FALSE, ranges |-> <<>>]
             ELSE [self |-> flush(fst(s1, const, m.val, TRUE)), ok |-> TRUE,
                   ranges |-> <<>>]
        ELSE [self |-> flush(string_to_u64_slice(s1, const, entries)),
              ok |-> TRUE, ranges |-> <<>>]

-----------------------------------------------------------------------------
(* The writer's inputs: a map from some of the MaxSpan + 1 codepoints from  *)
(* U+D7FE on, the last two scalar values before the surrogates, to values   *)
(* up to MaxValue; up to MaxCalls methods are called.                       *)

MaxSpan == 2
MaxValue == 1
MaxCalls == 2

WriterCodepoints == 55294..(55294 + MaxSpan)

WriterValues == {u64(v) : v \in 0..MaxValue}

WriterMaps == UNION {[S -> WriterValues] : S \in SUBSET WriterCodepoints}

\* WriterBuilder::new(name), char_literals(yes), fst_dir(dir), from_writer
InitWriter ==
    /\ opts \in [char_literals : BOOLEAN, fst_dir : BOOLEAN]
    /\ wrote_header = FALSE
    /\ wtr = [out |-> <<>>, line |-> <<>>]
    /\ files = {}
    /\ input \in [name : {Str("Gc")}, map : WriterMaps]
    /\ calls = <<>>
    /\ ranges = <<>>
    /\ ParseIdle /\ ExpandIdle /\ DecompIdle /\ PackIdle

Self == [wtr |-> wtr, wrote_header |-> wrote_header, files |-> files]

Called(op, r) ==
    /\ wtr' = r.self.wtr
    /\ wrote_header' = r.self.wrote_header
    /\ files' = r.self.files
    /\ calls' = Append(calls, [op |-> op, ok |-> r.ok])
    /\ ranges' = r.ranges
    /\ UNCHANGED <<opts, input>>
    /\ UNCHANGED <<parseVars, expandVars, decompVars, packVars>>

\* writer.ranges(name, codepoints), the codepoints being the keys of the map
Ranges ==
    /\ Len(calls) < MaxCalls
    /\ Called("ranges",
              Writer_ranges(Self, opts, input.name, DOMAIN input.map))

\* writer.ranges_to_unsigned_integer(name, map)
RangesToUnsignedInteger ==
    /\ Len(calls) < MaxCalls
    /\ Called("ranges_to_unsigned_integer",
              Writer_ranges_to_unsigned_integer(Self, opts, input.name, input.map))

NextWriter == Ranges \/ RangesToUnsignedInteger

SpecWriter == InitWriter /\ [][NextWriter]_vars

-----------------------------------------------------------------------------
(* The enum writer's inputs: a map from some of the first MaxVariants names *)
(* of VariantPool to sets of the codepoints U+0041, U+0042, U+0061.         *)

MaxVariants == 2

VariantPool == <<Chars(Str("Lu")), Chars(Str("Ll")), Chars(Str("Lt"))>>

EnumVariants == {VariantPool[i] : i \in 1..MaxVariants}

EnumCodepoints == {65, 66, 97}

EnumMaps == UNION {[V -> SUBSET EnumCodepoints] : V \in SUBSET EnumVariants}

InitEnum ==
    /\ opts \in [char_literals : BOOLEAN, fst_dir : BOOLEAN]
    /\ wrote_header = FALSE
    /\ wtr = [out |-> <<>>, line |-> <<>>]
    /\ files = {}
    /\ input \in [name : {Str("Gc")}, map : EnumMaps]
    /\ calls = <<>>
    /\ ranges = <<>>
    /\ ParseIdle /\ ExpandIdle /\ DecompIdle /\ PackIdle

\* writer.ranges_to_enum(name, enum_map)
RangesToEnum ==
    /\ Len(calls) < MaxCalls
    /\ Called("ranges_to_enum",
              Writer_ranges_to_enum(Self, opts, input.name, input.map))

NextEnum == RangesToEnum

SpecEnum == InitEnum /\ [][NextEnum]_vars

-----------------------------------------------------------------------------
(* The inputs for the width of the values: a map from some of the           *)
(* codepoints U+0041, U+0042 to the values at and next to the maxima of u8, *)
(* u16, u32 and u64.                                                        *)

WidthValues ==
    {u64(0), u64(U8Max), u64(U8Max + 1), u64(U16Max), u64(U16Max + 1),
     U32MaxAsU64, <<0, 0, 1, 0>>, U64MaxValue}

WidthCodepoints == {65, 66}

WidthMaps == UNION {[S -> WidthValues] : S \in SUBSET WidthCodepoints}

InitWidth ==
    /\ opts \in [char_literals : BOOLEAN, fst_dir : BOOLEAN]
    /\ wrote_header = FALSE
    /\ wtr = [out |-> <<>>, line |-> <<>>]
    /\ files = {}
    /\ input \in [name : {Str("Gc")}, map : WidthMaps]
    /\ calls = <<>>
    /\ ranges = <<>>
    /\ ParseIdle /\ ExpandIdle /\ DecompIdle /\ PackIdle

SpecWidth == InitWidth /\ [][NextWriter]_vars

-----------------------------------------------------------------------------
(* Packing: pack_str is given a string of up to MaxPackLen chars, each NUL, *)
(* 'A' or U+0080 (two bytes in UTF-8), or a string of the test packed; the  *)
(* value of a string it accepts is given to unpack_str.                     *)

MaxPackLen == 9

PackChars == {0, 65, 128}

TestStrings ==
    {Chars(Str("G")), Chars(Str("GG")), Chars(Str("YEO")),
     Chars(Str("ABCDEFGH")), <<>>, Chars(Str("ABCDEFGHI")),
     Chars(Str("AB")) \o <<0>> \o Chars(Str("CD"))}

PackStrings == SeqsUpTo(PackChars, MaxPackLen) \cup TestStrings

InitPack ==
    /\ pstr \in PackStrings
    /\ packed = None
    /\ unpacked = None
    /\ ParseIdle /\ ExpandIdle /\ DecompIdle /\ WriterIdle

\* pack_str(s)
PackStr ==
    /\ packed = None
    /\ packed' = Some(pack_str(pstr))
    /\ UNCHANGED <<pstr, unpacked>>
    /\ UNCHANGED <<parseVars, expandVars, decompVars, writerVars>>

\* unpack_str(pack_str(s).unwrap())
UnpackStr ==
    /\ packed # None
    /\ packed[1].ok
    /\ unpacked = None
    /\ unpacked' = Some(unpack_str(packed[1].val))
    /\ UNCHANGED <<pstr, packed>>
    /\ UNCHANGED <<parseVars, expandVars, decompVars, writerVars>>

NextPack == PackStr \/ UnpackStr

SpecPack == InitPack /\ [][NextPack]_vars

-----------------------------------------------------------------------------
(* The inputs around the surrogates: the keys of a map are the codepoints   *)
(* of some of five pieces, U+D7FF, U+D800, U+D801..U+DFFE, U+DFFF, U+E000,  *)
(* and its values are all 0, or 0 and 1 in turn from one piece to the next. *)

SurrogatePieces == <<{55295}, {55296}, 55297..57342, {57343}, {57344}>>

PieceOf(c) ==
    CHOOSE i \in 1..Len(SurrogatePieces) : c \in SurrogatePieces[i]

SurrogateMaps ==
    UNION {{[c \in UNION {SurrogatePieces[i] : i \in I} |-> u64(0)],
            [c \in UNION {SurrogatePieces[i] : i \in I} |->
                u64(PieceOf(c) % 2)]} :
              I \in SUBSET (1..Len(SurrogatePieces))}

InitSurrogates ==
    /\ opts \in [char_literals : BOOLEAN, fst_dir : BOOLEAN]
    /\ wrote_header = FALSE
    /\ wtr = [out |-> <<>>, line |-> <<>>]
    /\ files = {}
    /\ input \in [name : {Str("Gc")}, map : SurrogateMaps]
    /\ calls = <<>>
    /\ ranges = <<>>
    /\ ParseIdle /\ ExpandIdle /\ DecompIdle /\ PackIdle

SpecSurrogates == InitSurrogates /\ [][NextWriter]_vars

-----------------------------------------------------------------------------
(* The inputs of strings: a map from some of the codepoints U+D7FF, U+D800, *)
(* U+E000 to the strings "G", "ABCDEFGHI" (9 bytes), "A" NUL, and U+0080.   *)

StringCodepoints == {55295, 55296, 57344}

StringValues ==
    {Chars(Str("G")), Chars(Str("ABCDEFGHI")), <<65, 0>>, <<128>>}

StringMaps == UNION {[S -> StringValues] : S \in SUBSET StringCodepoints}

InitStrings ==
    /\ opts \in [char_literals : BOOLEAN, fst_dir : BOOLEAN]
    /\ wrote_header = FALSE
    /\ wtr = [out |-> <<>>, line |-> <<>>]
    /\ files = {}
    /\ input \in [name : {Str("Gc")}, map : StringMaps]
    /\ calls = <<>>
    /\ ranges = <<>>
    /\ ParseIdle /\ ExpandIdle /\ DecompIdle /\ PackIdle

\* writer.codepoint_to_string(name, map)
CodepointToString ==
    /\ Len(calls) < MaxCalls
    /\ Called("codepoint_to_string",
              Writer_codepoint_to_string(Self, opts, input.name, input.map))

NextStrings == CodepointToString

SpecStrings == InitStrings /\ [][NextStrings]_vars

-----------------------------------------------------------------------------
(* One Writer given up to MaxEmits calls of its six methods, in any order,  *)
(* each with an argument of its own type: a set of codepoints, a map of     *)
(* values, a map of variants, a map of strings (one with a string pack_str  *)
(* refuses, so that a call fails when an FST is written), a map from names  *)
(* to codepoints and a map from names to values.                            *)

MaxEmits == 3

EmitSets == {{}, {65, 66}}

EmitMaps == {(65 :> u64(1)) @@ (66 :> u64(2))}

EmitEnums == {<<>>, (Chars(Str("Lu")) :> {65}) @@ (Chars(Str("Ll")) :> {97})}

EmitStrings == {65 :> Chars(Str("a")), 65 :> Chars(Str("ABCDEFGHI"))}

EmitNames == {(Chars(Str("A")) :> 65) @@ (Chars(Str("B")) :> 55296)}

EmitCounts == {Chars(Str("A")) :> u64(1)}

InitEmit ==
    /\ opts \in [char_literals : BOOLEAN, fst_dir : BOOLEAN]
    /\ wrote_header = FALSE
    /\ wtr = [out |-> <<>>, line |-> <<>>]
    /\ files = {}
    /\ input = [name |-> Str("Gc"), map |-> <<>>]
    /\ calls = <<>>
    /\ ranges = <<>>
    /\ ParseIdle /\ ExpandIdle /\ DecompIdle /\ PackIdle

\* writer.ranges(name, codepoints)
EmitRanges ==
    /\ Len(calls) < MaxEmits
    /\ \E codepoints \in EmitSets :
           Called("ranges", Writer_ranges(Self, opts, input.name, codepoints))

\* writer.ranges_to_enum(name, enum_map)
EmitRangesToEnum ==
    /\ Len(calls) < MaxEmits
    /\ \E enum_map \in EmitEnums :
           Called("ranges_to_enum",
                  Writer_ranges_to_enum(Self, opts, input.name, enum_map))

\* writer.ranges_to_unsigned_integer(name, map)
EmitRangesToUnsignedInteger ==
    /\ Len(calls) < MaxEmits
    /\ \E map \in EmitMaps :
           Called("ranges_to_unsigned_integer",
                  Writer_ranges_to_unsigned_integer(Self, opts, input.name, map))

\* writer.codepoint_to_string(name, map)
EmitCodepointToString ==
    /\ Len(calls) < MaxEmits
    /\ \E map \in EmitStrings :
           Called("codepoint_to_string",
                  Writer_codepoint_to_string(Self, opts, input.name, map))

\* writer.string_to_codepoint(name, map)
EmitStringToCodepoint ==
    /\ Len(calls) < MaxEmits
    /\ \E map \in EmitNames :
           Called("string_to_codepoint",
                  Writer_string_to_codepoint(Self, opts, input.name, map))

\* writer.string_to_u64(name, map)
EmitStringToU64 ==
    /\ Len(calls) < MaxEmits
    /\ \E map \in EmitCounts :
           Called("string_to_u64",
                  Writer_string_to_u64(Self, opts, input.name, map))

NextEmit ==
    \/ EmitRanges
    \/ EmitRangesToEnum
    \/ EmitRangesToUnsignedInteger
    \/ EmitCodepointToString
    \/ EmitStringToCodepoint
    \/ EmitStringToU64

SpecEmit == InitEmit /\ [][NextEmit]_vars

-----------------------------------------------------------------------------
(* Properties of range compression *)

\* the last call made a range list: it wrote a slice
MadeRanges == calls # <<>> /\ ~opts.fst_dir

LastOp == calls[Len(calls)].op

\* the ranges of the list that cover the codepoint c
Covering(c) == {i \in 1..Len(ranges) : ranges[i][1] <= c /\ c <= ranges[i][2]}

\* C9: the range list holds the map: a codepoint is covered by a range
\* exactly when it is a key of the input, by one range only, whose value,
\* when the list has values, is the value of the codepoint in the input; the
\* ends of every range are keys; an empty input gives an empty list.
C9_CompressionPreservesMapping ==
    MadeRanges =>
        /\ \A c \in WriterCodepoints :
               /\ (Covering(c) # {}) <=> (c \in DOMAIN input.map)
               /\ Cardinality(Covering(c)) <= 1
               /\ LastOp = "ranges_to_unsigned_integer" =>
                      \A i \in Covering(c) : ranges[i][3] = input.map[c]
        /\ \A i \in 1..Len(ranges) :
               /\ ranges[i][1] \in DOMAIN input.map
               /\ ranges[i][2] \in DOMAIN input.map
        /\ (DOMAIN input.map = {} => ranges = <<>>)

\* C9 witness: a list of values with a range of several codepoints and
\* another range, for an input of two values
C9_Witness ==
    /\ MadeRanges
    /\ LastOp = "ranges_to_unsigned_integer"
    /\ Len(ranges) >= 2
    /\ \E i \in 1..Len(ranges) : ranges[i][1] < ranges[i][2]
    /\ \E k1, k2 \in DOMAIN input.map : input.map[k1] # input.map[k2]

\* the value of a range; a list without values has one value for all
ValueOf(r) == IF Len(r) = 3 THEN r[3] ELSE 0

\* the value of a key of the input in the list the last call made
InputValue(k) ==
    IF LastOp = "ranges_to_unsigned_integer" THEN input.map[k] ELSE 0

\* the order and the minimality of the list, in every state
C10_Minimal ==
    MadeRanges =>
        /\ \A i \in 1..Len(ranges) : ranges[i][1] <= ranges[i][2]
        /\ \A i \in 1..(Len(ranges) - 1) :
               /\ ranges[i][2] < ranges[i + 1][1]
               /\ ~(/\ ranges[i][2] + 1 = ranges[i + 1][1]
                    /\ ValueOf(ranges[i]) = ValueOf(ranges[i + 1]))
        /\ \A k1, k2 \in DOMAIN input.map :
               (k1 < k2 /\ \A k \in DOMAIN input.map : ~(k1 < k /\ k < k2)) =>
                   ((Covering(k1) = Covering(k2))
                        <=> (k1 + 1 = k2 /\ InputValue(k1) = InputValue(k2)))

\* a method called again makes the list it made before
C10_SameCallSameList ==
    (calls # <<>> /\ Len(calls') = Len(calls) + 1
         /\ calls'[Len(calls')].op = LastOp) => ranges' = ranges

\* C10: the range list is in strictly ascending order with start <= end; two
\* keys of the input that follow one another are in one range exactly when
\* the second is the first plus one and their values are equal, so no two
\* ranges that follow one another are adjacent with equal values; a method
\* called again on the same input makes the same list.
C10_CompressionMinimalOrdered == []C10_Minimal /\ [][C10_SameCallSameList]_vars

\* C10 witness: the same method was called twice and made a list in which
\* two ranges are adjacent, their values differing
C10_Witness ==
    /\ MadeRanges
    /\ Len(calls) = 2
    /\ calls[1].op = calls[2].op
    /\ \E i \in 1..(Len(ranges) - 1) :
           /\ ranges[i][2] + 1 = ranges[i + 1][1]
           /\ ranges[i][1] < ranges[i][2]

\* the codepoints the range list covers
Covered == UNION {ranges[i][1]..ranges[i][2] : i \in 1..Len(ranges)}

\* the range list expanded again to the entries of a map: every codepoint
\* of every range, with the range's value
Reexpanded ==
    [c \in Covered |-> ranges[CHOOSE i \in Covering(c) : TRUE][3]]

\* the range list of the last call, compressed again
Recompressed ==
    IF LastOp = "ranges_to_unsigned_integer"
    THEN to_range_values(MapEntries(Reexpanded), <<>>)
    ELSE to_ranges(SetEntries(Covered), <<>>)

\* C11: range compression is idempotent: the range list a call made,
\* expanded to its codepoint/value entries and compressed again, is the same
\* range list.
C11_CompressionIdempotent == MadeRanges => Recompressed = ranges

\* C11 witness: one call made a list of values in which a range of several
\* codepoints is followed at once by a range of another value
C11_Witness ==
    /\ MadeRanges
    /\ Len(calls) = 1
    /\ LastOp = "ranges_to_unsigned_integer"
    /\ \E i \in 1..(Len(ranges) - 1) :
           /\ ranges[i][1] < ranges[i][2]
           /\ ranges[i][2] + 1 = ranges[i + 1][1]
           /\ ranges[i][3] # ranges[i + 1][3]

-----------------------------------------------------------------------------
(* Properties of the enum writer *)

\* the position of a variant among the variants of the input: the number of
\* variants whose name is before its name, byte by byte
IndexOf(v) ==
    Cardinality({w \in DOMAIN input.map : KeyLess(as_bytes(w), as_bytes(v))})

\* the variant at a position
VariantAt(n) == CHOOSE v \in DOMAIN input.map : IndexOf(v) = n

\* a name of printable characters between double quotes
Quoted(v) == <<"\"">> \o [i \in 1..Len(v) |-> Printable[v[i] - 31]] \o <<"\"">>

\* the codepoint of a key of an FST
KeyValue(k) == ((k[1] * 256 + k[2]) * 256 + k[3]) * 256 + k[4]

\* the table the last call compiled, as pairs of a codepoint and a value:
\* the entries of the FST it wrote, or the codepoints of the range list
Compiled ==
    IF opts.fst_dir
    THEN UNION {{<<KeyValue(f.fst[i].key), f.fst[i].value>> :
                    i \in 1..Len(f.fst)} : f \in files}
    ELSE UNION {{<<c, ranges[i][3]>> : c \in ranges[i][1]..ranges[i][2]} :
                    i \in 1..Len(ranges)}

\* the lines written after the last line that declares the _ENUM table
AfterEnumHeader ==
    LET h == Str("pub const GC_ENUM: &'static [&'static str] = &[")
        at == MaxOf({i \in 1..Len(wtr.out) : wtr.out[i] = h})
    IN  SubSeq(wtr.out, at + 1, Len(wtr.out))

\* the line of the names of the variants in the order of their positions
NamesLine ==
    Str("  ")
        \o JoinWith([n \in 1..Cardinality(DOMAIN input.map) |->
                         Quoted(VariantAt(n - 1))], Str(", "))
        \o <<",">>

LuLl == (Chars(Str("Lu")) :> {65}) @@ (Chars(Str("Ll")) :> {97})

\* C12 as stated: the map {"Lu": {0x41}, "Ll": {0x61}} compiles to the
\* order ["Lu", "Ll"] and the table (0x41, 0x41, 0), (0x61, 0x61, 1).
C12_FirstSeenOrder ==
    (calls # <<>> /\ ~opts.fst_dir /\ input.map = LuLl) =>
        /\ AfterEnumHeader[1] = Str("  \"Lu\", \"Ll\",")
        /\ ranges = <<<<65, 65, u64(0)>>, <<97, 97, u64(1)>>>>

\* C12: ranges_to_enum gives each variant the index equal to its position
\* in the ascending byte-wise order of the variant names: the _ENUM table
\* lists the names in that order, and every codepoint compiled has the
\* position of a variant whose set holds it.  The map {"Lu": {0x41},
\* "Ll": {0x61}} compiles to the order ["Ll", "Lu"] and the table
\* (0x41, 0x41, 1), (0x61, 0x61, 0).
C12_IndexIsSortedPosition ==
    calls # <<>> =>
        /\ DOMAIN input.map # {} => AfterEnumHeader[1] = NamesLine
        /\ DOMAIN input.map = {} => AfterEnumHeader[1] = Str("];")
        /\ \A p \in Compiled :
               \E v \in DOMAIN input.map :
                   p[2] = u64(IndexOf(v)) /\ p[1] \in input.map[v]
        /\ \A v \in DOMAIN input.map :
               \A c \in input.map[v] : \E p \in Compiled : p[1] = c
        /\ (~opts.fst_dir /\ input.map = LuLl) =>
               /\ AfterEnumHeader[1] = Str("  \"Ll\", \"Lu\",")
               /\ ranges = <<<<65, 65, u64(1)>>, <<97, 97, u64(0)>>>>

\* C12 witness: the map {"Lu": {0x41}, "Ll": {0x61}} was compiled to a
\* range list
C12_Witness ==
    /\ calls # <<>>
    /\ ~opts.fst_dir
    /\ input.map = LuLl
    /\ Len(ranges) = 2

\* C13: a codepoint in the sets of several variants is compiled once, with
\* the index of the last of them, the largest index, and ranges_to_enum
\* returns Ok.
C13_LastWriteWins ==
    calls # <<>> =>
        /\ calls[Len(calls)].ok
        /\ \A p \in Compiled :
               p[2] = u64(MaxOf({IndexOf(v) :
                                    v \in {w \in DOMAIN input.map :
                                               p[1] \in input.map[w]}}))
        /\ \A p, q \in Compiled : p[1] = q[1] => p = q

\* C13 witness: a codepoint in the sets of two variants was compiled, the
\* other codepoints of the first variant keeping its index
C13_Witness ==
    /\ calls # <<>>
    /\ calls[Len(calls)].ok
    /\ \E v, w \in DOMAIN input.map :
           /\ IndexOf(v) < IndexOf(w)
           /\ input.map[v] \cap input.map[w] # {}
           /\ input.map[v] \ input.map[w] # {}
           /\ \E p \in Compiled :
                  p[1] \in input.map[v] \cap input.map[w]

-----------------------------------------------------------------------------
(* Properties of the width of the values *)

UnsignedTypes == {Str("u8"), Str("u16"), Str("u32"), Str("u64")}

\* the largest value of an unsigned type
TypeMax(ty) ==
    CASE ty = Str("u8") -> u64(U8Max)
      [] ty = Str("u16") -> u64(U16Max)
      [] ty = Str("u32") -> U32MaxAsU64
      [] ty = Str("u64") -> U64MaxValue

\* the line that declares the table of values with the type ty
ValuesHeader(ty) ==
    LET cp == IF opts.char_literals THEN Str("char") ELSE Str("u32")
    IN  Str("pub const GC: &'static [(") \o cp \o Str(", ") \o cp
            \o Str(", ") \o ty \o Str(")] = &[")

\* the types with which a table of values was declared in the output
WrittenTypes ==
    {ty \in UnsignedTypes :
        \E i \in 1..Len(wtr.out) : wtr.out[i] = ValuesHeader(ty)}

\* ranges_to_unsigned_integer was called and wrote a slice
WroteValues ==
    /\ ~opts.fst_dir
    /\ \E i \in 1..Len(calls) : calls[i].op = "ranges_to_unsigned_integer"

InputValues == {input.map[c] : c \in DOMAIN input.map}

\* C14: the type written for the values of a table holds every value of
\* the table, and no narrower type of the four holds the largest: u8 up to
\* 255, u16 up to 65535, u32 up to 4294967295, u64 beyond; the type of an
\* empty table is u8.
C14_NarrowestWidth ==
    WroteValues =>
        /\ Cardinality(WrittenTypes) = 1
        /\ \A ty \in WrittenTypes :
               /\ \A v \in InputValues : U64Le(v, TypeMax(ty))
               /\ \A narrower \in UnsignedTypes :
                      (TypeMax(narrower) # TypeMax(ty)
                           /\ U64Le(TypeMax(narrower), TypeMax(ty))) =>
                          \E v \in InputValues : ~U64Le(v, TypeMax(narrower))
               /\ InputValues = {} => ty = Str("u8")

\* C14 witness: a table with the values 255 and 4294967296 was written
\* with the type u64
C14_Witness ==
    /\ WroteValues
    /\ InputValues = {u64(U8Max), <<0, 0, 1, 0>>}
    /\ WrittenTypes = {Str("u64")}

-----------------------------------------------------------------------------
(* Properties of packing *)

\* the bytes of the string given to pack_str
PackBytes == as_bytes(pstr)

HasNul == \E i \in 1..Len(pstr) : pstr[i] = 0

\* the text t is the end of the text s
EndsWithText(s, t) ==
    Len(s) >= Len(t) /\ SubSeq(s, Len(s) - Len(t) + 1, Len(s)) = t

\* C15: pack_str returns Ok exactly for a string of at most 8 bytes without
\* a NUL byte; a string of more than 8 bytes is refused as too long, with
\* or without a NUL byte, and a string of at most 8 bytes with a NUL byte
\* is refused as containing a NUL byte.
C15_PackAcceptsShortNulFree ==
    packed # None =>
        /\ "panic" \notin DOMAIN packed[1]
        /\ packed[1].ok <=> (Len(PackBytes) <= 8 /\ ~HasNul)
        /\ Len(PackBytes) > 8 =>
               /\ ~packed[1].ok
               /\ EndsWithText(packed[1].err, Str(" (too long)"))
        /\ (Len(PackBytes) <= 8 /\ HasNul) =>
               /\ ~packed[1].ok
               /\ EndsWithText(packed[1].err, Str(" (contains NUL byte)"))

\* C15 witness: a string of 9 bytes with a NUL byte was refused as too long
C15_Witness ==
    /\ packed # None
    /\ Len(PackBytes) = 9
    /\ HasNul
    /\ ~packed[1].ok
    /\ EndsWithText(packed[1].err, Str(" (too long)"))

\* byte i of a u64, byte 0 being the least significant
ByteOf(v, i) ==
    (v[(i \div 2) + 1] \div (IF i % 2 = 0 THEN 1 ELSE U8Max + 1)) % (U8Max + 1)

\* C16: the value pack_str returns has byte i of the string in its bits
\* 8i..8i+7, the first byte in the least significant place, and 0 in every
\* byte from the length of the string on; the value of the empty string is
\* 0; the largest shift is 8 * 7 bits and the call does not panic.
C16_PackLayout ==
    packed # None =>
        /\ "panic" \notin DOMAIN packed[1]
        /\ packed[1].ok =>
               /\ 8 * (Len(PackBytes) - 1) < 64
               /\ \A i \in 0..7 :
                      ByteOf(packed[1].val, i) =
                          IF i < Len(PackBytes) THEN PackBytes[i + 1] ELSE 0
               /\ pstr = <<>> => packed[1].val = U64Zero

\* C16 witness: a string of 8 bytes, not all the same, was packed
C16_Witness ==
    /\ packed # None
    /\ packed[1].ok
    /\ Len(PackBytes) = 8
    /\ PackBytes[1] # PackBytes[8]
    /\ ByteOf(packed[1].val, 7) = PackBytes[8]

\* C17 as stated: unpack_str gives back every string pack_str accepts.
C17_RoundTrip ==
    unpacked # None => unpacked[1] = pstr

-----------------------------------------------------------------------------
(* Properties of the tables written as slices *)

\* the lines of the last table written: those after the last line that
\* declares a table, but for the line that closes the table
LastTableLines ==
    LET at == MaxOf({i \in 1..Len(wtr.out) :
                        Len(wtr.out[i]) >= 10
                            /\ SubSeq(wtr.out[i], 1, 10) = Str("pub const ")})
    IN  SubSeq(wtr.out, at + 1, Len(wtr.out) - 1)

\* the text of the last table: its lines without their indent, with a
\* space between one line and the next
EmittedText ==
    JoinWith([i \in 1..Len(LastTableLines) |->
                 SubSeq(LastTableLines[i], 3, Len(LastTableLines[i]))],
             Str(" "))

IsSurrogate(c) == c >= 55296 /\ c <= 57343

\* the literal of a codepoint in the table: a number, or a char between
\* quotes, the chars of the inputs being written as \u{..}
Literal(c) ==
    IF opts.char_literals
    THEN Str("'\\u{") \o make_ascii_lowercase(RadixDigits(c, 16)) \o Str("}'")
    ELSE FmtDecimal(c)

\* the text of a range in the table, without the comma after it
EntryOf(r) ==
    Str("(") \o Literal(r[1]) \o Str(", ") \o Literal(r[2])
        \o (IF Len(r) = 3 THEN Str(", ") \o FmtDecimal(r[3][1]) ELSE <<>>)
        \o Str(")")

\* the text of a table that holds the ranges of the list rs, in order
TextOf(rs) ==
    IF rs = <<>> THEN <<>>
    ELSE JoinWith([i \in 1..Len(rs) |-> EntryOf(rs[i])], Str(", ")) \o Str(",")

\* the ranges of the list whose ends are both scalar values, in order
ScalarEnded ==
    SelectSeq(ranges, LAMBDA r : ~IsSurrogate(r[1]) /\ ~IsSurrogate(r[2]))

C19_NoSurrogateInTable ==
    (MadeRanges /\ opts.char_literals) =>
        \A i \in 1..Len(ranges) :
            Contains(EmittedText, EntryOf(ranges[i])) =>
                \A c \in ranges[i][1]..ranges[i][2] : ~IsSurrogate(c)

-----------------------------------------------------------------------------
(* Properties of the tables of strings *)

\* the text of an entry of a table of strings, without the comma after it
StringEntryOf(k) ==
    Str("(") \o Literal(k) \o Str(", ") \o str_debug(input.map[k]) \o Str(")")

\* the text of a table that holds the entries of the keys ks, in order
StringTextOf(ks) ==
    IF ks = <<>> THEN <<>>
    ELSE JoinWith([i \in 1..Len(ks) |-> StringEntryOf(ks[i])], Str(", "))
             \o Str(",")

\* the string pack_str refuses: more than 8 bytes, or a NUL
Unpackable(s) == Len(as_bytes(s)) > 8 \/ \E i \in 1..Len(s) : s[i] = 0

\* codepoint_to_string was called and wrote a slice
WroteStrings == calls # <<>> /\ ~opts.fst_dir

\* C20 as stated: a table of strings written as a slice has an entry for
\* every key of the map, in ascending order, with char literals or without.
C20_NoEntryDropped ==
    WroteStrings =>
        /\ calls[Len(calls)].ok
        /\ EmittedText = StringTextOf(Ascending(DOMAIN input.map))

\* C20: a table of strings written as a slice has, in ascending order of
\* the codepoints, an entry for every key of the map when char literals
\* are off, and for every key that is a scalar value when they are on; the
\* call returns Ok whatever the strings, one of more than 8 bytes or with
\* a NUL making the call fail only when an FST is written.
C20_StringEntriesOfScalarKeys ==
    calls # <<>> =>
        /\ WroteStrings =>
               /\ calls[Len(calls)].ok
               /\ EmittedText =
                      StringTextOf(Ascending(
                          {k \in DOMAIN input.map :
                              opts.char_literals => ~IsSurrogate(k)}))
        /\ opts.fst_dir =>
               (calls[Len(calls)].ok <=>
                    \A k \in DOMAIN input.map : ~Unpackable(input.map[k]))

\* C20 witness: with char literals, a slice was written for a map of three
\* keys, one a surrogate, with a string of 9 bytes and a string with a NUL
C20_Witness ==
    /\ WroteStrings
    /\ opts.char_literals
    /\ DOMAIN input.map = StringCodepoints
    /\ \E k \in DOMAIN input.map : Len(as_bytes(input.map[k])) > 8
    /\ \E k \in DOMAIN input.map : \E i \in 1..Len(input.map[k]) :
           input.map[k][i] = 0
    /\ calls[Len(calls)].ok
    /\ EmittedText = StringTextOf(<<55295, 57344>>)


-----------------------------------------------------------------------------
(* Properties of the tables written as FSTs *)

\* codepoints at and next to the places where a byte of the key changes
KeySamples ==
    {0, 1, 255, 256, 257, 65535, 65536, 65537, 1114111, 16777215, 16777216,
     2147483647}

\* the FST the last call wrote: the entries its builder was given
LastFst == (CHOOSE f \in files : f.name = Str("gc.fst")).fst

\* C21: a call that writes an FST gives the builder one entry for every
\* codepoint of its input and no other, surrogates among them, with char
\* literals or without, in ascending order of the codepoints; the key of an
\* entry is four bytes whose big-endian value is the codepoint, the keys are
\* strictly ascending byte by byte, and no range list is made.  u32_key
\* keeps the order: of two codepoints the smaller has the smaller key.
C21_FullStreamToBuilder ==
    /\ \A a, b \in KeySamples : a < b => KeyLess(u32_key(a), u32_key(b))
    /\ (calls # <<>> /\ opts.fst_dir) =>
           \E built \in {LastFst} :
               /\ calls[Len(calls)].ok
               /\ ranges = <<>>
               /\ Cardinality(files) = 1
               /\ Len(built) = Cardinality(DOMAIN input.map)
               /\ \A i \in 1..Len(built) :
                      \E cp \in {KeyValue(built[i].key)} :
                          /\ Len(built[i].key) = 4
                          /\ \A j \in 1..4 : built[i].key[j] \in 0..U8Max
                          /\ cp \in DOMAIN input.map
                          /\ LastOp = "ranges_to_unsigned_integer" =>
                                 built[i].value = input.map[cp]
                          /\ LastOp = "ranges" => DOMAIN built[i] = {"key"}
               /\ \A i \in 1..(Len(built) - 1) :
                      /\ KeyValue(built[i].key) < KeyValue(built[i + 1].key)
                      /\ KeyLess(built[i].key, built[i + 1].key)

\* C21 witness: with char literals, an FST was written for the map of every
\* codepoint from U+D7FF to U+E000, the 2048 surrogates among them, with two
\* values
C21_Witness ==
    /\ calls # <<>>
    /\ opts.fst_dir
    /\ opts.char_literals
    /\ LastOp = "ranges_to_unsigned_integer"
    /\ DOMAIN input.map = 55295..57344
    /\ Len(LastFst) = 2050
    /\ KeyValue(LastFst[2].key) = 55296
    /\ \E i \in 1..Len(LastFst) : LastFst[i].value # LastFst[1].value


-----------------------------------------------------------------------------
(* Properties of the header *)

\* the lines of the header that no table and no separator writes
HeaderMarks ==
    {Str("#![allow(dead_code)]"),
     Str("// DO NOT EDIT THIS FILE. IT WAS AUTOMATICALLY GENERATED BY:"),
     Str("//"),
     Str("//  ucd-generate general-category"),
     Str("// ucd-generate is available on crates.io.")}

\* the first line of a table or of the reference to an FST
IsTableLine(l) ==
    \/ Len(l) >= 10 /\ SubSeq(l, 1, 10) = Str("pub const ")
    \/ l = Str("lazy_static! {")

\* the header is in the output once, as its first seven lines
C22_HeaderOnce ==
    /\ calls = <<>> => (~wrote_header /\ wtr.out = <<>>)
    /\ calls # <<>> =>
           /\ wrote_header
           /\ Len(wtr.out) >= 8
           /\ wtr.out[1] = Str("#![allow(dead_code)]")
           /\ wtr.out[2] = <<>>
           /\ \A i \in {1, 3, 4, 5, 6, 7} : wtr.out[i] \in HeaderMarks
           /\ wtr.out[7] = Str("// ucd-generate is available on crates.io.")
           /\ \A i \in 8..Len(wtr.out) : wtr.out[i] \notin HeaderMarks
           /\ \A i \in 1..7 : ~IsTableLine(wtr.out[i])

\* a call leaves wrote_header set and what was written in place
C22_HeaderStays ==
    wrote_header =>
        /\ wrote_header'
        /\ Len(wtr'.out) >= Len(wtr.out)
        /\ SubSeq(wtr'.out, 1, Len(wtr.out)) = wtr.out

\* C22: over every sequence of calls of ranges, ranges_to_enum (with the
\* call it makes to ranges_to_unsigned_integer), ranges_to_unsigned_integer,
\* codepoint_to_string, string_to_codepoint and string_to_u64 on one Writer,
\* the header is written once, by the first call, before the text of any
\* table, and wrote_header, once set, stays set.
C22_HeaderIdempotent == []C22_HeaderOnce /\ [][C22_HeaderStays]_vars

\* C22 witness: ranges_to_enum, string_to_u64 and codepoint_to_string were
\* called in turn and returned Ok, four tables were written as slices, and
\* the first line of the header is in the output once
C22_Witness ==
    /\ Len(calls) = 3
    /\ calls[1].op = "ranges_to_enum"
    /\ calls[2].op = "string_to_u64"
    /\ calls[3].op = "codepoint_to_string"
    /\ \A i \in 1..3 : calls[i].ok
    /\ ~opts.fst_dir
    /\ wrote_header
    /\ Cardinality({i \in 1..Len(wtr.out) : IsTableLine(wtr.out[i])}) = 4
    /\ Cardinality({i \in 1..Len(wtr.out) :
                       wtr.out[i] = Str("#![allow(dead_code)]")}) = 1


-----------------------------------------------------------------------------
(* Properties of the tables of strings written as FSTs *)

\* the keys of the input whose string pack_str refuses
Refused == {k \in DOMAIN input.map : Unpackable(input.map[k])}

\* C23: when an FST is to be written, codepoint_to_string on a map with a
\* string of more than 8 bytes or with a NUL byte returns an error, whatever
\* the place of that entry in the map, and writes neither the .fst file nor
\* the lazy_static that includes it: no file is created and the output has
\* no line of a table.  On a map without such a string the call returns Ok
\* and writes the file and the lazy_static.
C23_EncodingErrorAbortsTable ==
    (calls # <<>> /\ opts.fst_dir) =>
        /\ Refused # {} =>
               /\ \A i \in 1..Len(calls) : ~calls[i].ok
               /\ files = {}
               /\ wtr.line = <<>>
               /\ \A i \in 1..Len(wtr.out) :
                      /\ ~IsTableLine(wtr.out[i])
                      /\ ~Contains(wtr.out[i], Str("include_bytes!"))
                      /\ ~Contains(wtr.out[i], Str(".fst"))
        /\ Refused = {} =>
               /\ \A i \in 1..Len(calls) : calls[i].ok
               /\ Cardinality(files) = 1
               /\ \E i \in 1..Len(wtr.out) :
                      Contains(wtr.out[i], Str("include_bytes!(\"gc.fst\")"))

\* C23 witness: the call failed on a map of three keys whose last entry
\* only has a string pack_str refuses, and no file was created
C23_Witness ==
    /\ calls # <<>>
    /\ opts.fst_dir
    /\ ~calls[Len(calls)].ok
    /\ DOMAIN input.map = StringCodepoints
    /\ Refused = {57344}
    /\ files = {}


-----------------------------------------------------------------------------
(* Properties of the entries of a decomposition beyond its length *)

\* the entries of the mapping from index len on (len + 1 on, here) are
\* U+0000, and those below are the codepoints pushed, none of them U+0000
C24_ZeroBeyondLen ==
    /\ decomp.len \in 0..Capacity
    /\ \A i \in (decomp.len + 1)..Capacity : decomp.mapping[i] = 0
    /\ \A i \in 1..decomp.len : decomp.mapping[i] = pushed[i]

\* a call that fails leaves the decomposition as it was
C24_FailedCallWritesNothing ==
    (dres'.op # "none" /\ ~dres'.ok) => decomp' = decomp

\* C24: in every decomposition made by default, new, push and from_str,
\* every entry of the mapping at an index >= len is U+0000; a push that
\* fails, and a new or a from_str that fails at one of its pushes or at the
\* parse of a codepoint or of the tag, writes nothing.
C24_UnusedEntriesAreZero ==
    []C24_ZeroBeyondLen /\ [][C24_FailedCallWritesNothing]_vars

\* C24 witness: a push that succeeded made a decomposition of 17
\* codepoints, none U+0000, whose last entry is U+0000
C24_Witness ==
    /\ dres.op = "push"
    /\ dres.ok
    /\ decomp.len = 17
    /\ \A i \in 1..17 : decomp.mapping[i] # 0
    /\ decomp.mapping[18] = 0


-----------------------------------------------------------------------------
(* Properties of the end of the expansion *)

\* the records returned so far come from rows further and further on, those
\* made from one row have larger and larger codepoints, and once next() has
\* returned None the rows and the range are exhausted
C25_Once ==
    /\ \A k \in 1..(Len(out) - 1) :
           /\ prov.out_rows[k] <= prov.out_rows[k + 1]
           /\ prov.out_rows[k] = prov.out_rows[k + 1] =>
                  out[k].codepoint < out[k + 1].codepoint
    /\ prov.done => (Unread = <<>> /\ RangeEmpty /\ it.pos = Len(src) + 1)

\* a call never goes back in the rows, adds at most one record after those
\* returned before, and returns None again once it has returned None
C25_Step ==
    /\ it'.pos >= it.pos
    /\ Len(out') <= Len(out) + 1
    /\ SubSeq(out', 1, Len(out)) = out
    /\ prov.done => (ret' = None /\ out' = out)

\* C25: for every sequence of rows, next() called again and again returns
\* None in the end, when the rows and the range are exhausted, and from then
\* on returns None at every call and no record; the expander never goes
\* back to a row it has consumed nor to a codepoint of the range it has
\* returned.
C25_ExpansionIsFinite ==
    /\ <>[](prov.done /\ ret = None)
    /\ []C25_Once
    /\ [][C25_Step]_vars

\* C25 witness: next() has returned None after the three records of a
\* range and the record of an end without a start, passed through
C25_Witness ==
    /\ prov.done
    /\ ret = None
    /\ Len(out) = 4
    /\ prov.pairs # {}
    /\ \E k \in 1..3 : prov.out_rows[k] = prov.out_rows[k + 1]
    /\ \E k \in 1..4 : prov.out_rows[k] \notin prov.pairs


-----------------------------------------------------------------------------
(* Properties of a range whose end is before its start *)

\* row i is a range start and the row after it a range end with a smaller
\* codepoint
Inverted(i) ==
    /\ i >= 1 /\ i + 1 <= Len(src)
    /\ is_range_start(src[i])
    /\ is_range_end(src[i + 1])
    /\ src[i + 1].codepoint < src[i].codepoint

\* the number of rows the expander has consumed: those the underlying
\* iterator has yielded, but for the row held by peek()
Consumed ==
    it.pos - 1 - (IF it.peeked # None /\ it.peeked[1] # None THEN 1 ELSE 0)

\* no record is made from either row of such a pair once the expander has
\* consumed it; the expander takes the two rows as a pair whenever it reads
\* the start as the first row of a call, which it does unless it has
\* consumed that row as the end of the pair before it
C26_NothingEmitted ==
    \A i \in 1..Len(src) :
        Inverted(i) =>
            /\ i \in prov.pairs => (MadeFrom(i) = {} /\ MadeFrom(i + 1) = {}
                                       /\ Consumed >= i + 1)
            /\ (Consumed >= i /\ (i - 1) \notin prov.pairs) =>
                   (i \in prov.pairs /\ Consumed >= i + 1)

\* the call that takes such a pair returns a record made from a row after
\* the end row, the rows between being those of other such pairs, or
\* returns None at the end of the rows; it does not fail
C26_Step ==
    \A i \in prov'.pairs \ prov.pairs :
        Inverted(i) =>
            LET row == prov'.out_rows[Len(prov'.out_rows)]
                last == IF ret' = None THEN Len(src) ELSE row - 1
            IN  /\ ret' # None =>
                       /\ Len(out') = Len(out) + 1
                       /\ row >= i + 2
                       /\ \/ ret' = Some(src[row])
                          \/ row \in prov'.pairs
                                 /\ ret' = Some(Synth(src[row], src[row].codepoint))
                /\ ret' = None => (out' = out /\ Unread' = <<>>)
                /\ \A j \in (i + 2)..last :
                       \/ j \in prov'.pairs /\ Inverted(j)
                       \/ (j - 1) \in prov'.pairs /\ Inverted(j - 1)

\* C26 as stated: whenever a range start is followed at once by a range end
\* with a smaller codepoint and the expander has consumed both rows, no
\* record of the output is made from either of them.
C26_EveryInvertedPair ==
    \A i \in 1..Len(src) :
        (Inverted(i) /\ Consumed >= i + 1) =>
            (MadeFrom(i) = {} /\ MadeFrom(i + 1) = {})

\* C26: a range start read by next() and followed at once by a range end
\* with a smaller codepoint is consumed with it and nothing is emitted for
\* the two rows: the call returns the record made from the next row after
\* them that is not such a pair, or None when there is none, without error.
C26_InvertedPairVanishes == []C26_NothingEmitted /\ [][C26_Step]_vars

\* C26 witness: the rows <Y, First> U+0043 and <Y, Last> U+0041 were taken
\* as a pair, and the one record emitted is the row after them, as it stands
C26_Witness ==
    /\ Len(src) = 3
    /\ Inverted(1)
    /\ 1 \in prov.pairs
    /\ out = <<src[3]>>
    /\ prov.out_rows = <<3>>
    /\ ret = Some(src[3])


-----------------------------------------------------------------------------
(* Properties of the two tables of ranges_to_enum, read together *)

\* the text of a table whose lines, and the lines after them, are given:
\* its lines, up to the line that closes it, one after the other
TableText(lines) ==
    LET closes == {i \in 1..Len(lines) : lines[i] = Str("];")}
    IN  JoinWith(SubSeq(lines, 1, MinOf(closes) - 1), <<>>)

\* the texts between one double quote and the next from position i of a
\* text, as strings, after those of acc; open is the position of the quote
\* that is not closed yet, or 0
RECURSIVE QuotedIn(_, _, _, _)
QuotedIn(text, i, open, acc) ==
    IF i > Len(text) THEN acc
    ELSE IF text[i] # "\"" THEN QuotedIn(text, i + 1, open, acc)
    ELSE IF open = 0 THEN QuotedIn(text, i + 1, i, acc)
    ELSE QuotedIn(text, i + 1, 0,
                  Append(acc, Chars(SubSeq(text, open + 1, i - 1))))

\* the names written in the _ENUM table by the last call, in order
EmittedNames ==
    CHOOSE names \in {QuotedIn(text, 1, 0, <<>>) :
                          text \in {TableText(lines) :
                                       lines \in {AfterEnumHeader}}} : TRUE

\* C27: the _ENUM table lists the variants of the input once each, a
\* variant with an empty set among them, in ascending order of their names,
\* the order in which the map is iterated; the index compiled for a
\* codepoint is the position in that list, counted from 0, of a variant
\* whose set holds the codepoint, so every index is in 0..n-1 for n
\* variants, and every codepoint of every set is compiled.
C27_EnumTablesConsistent ==
    calls # <<>> =>
        \E names \in {EmittedNames}, table \in {Compiled} :
            LET n == Len(names)
            IN  /\ n = Cardinality(DOMAIN input.map)
                /\ {names[k] : k \in 1..n} = DOMAIN input.map
                /\ \A k \in 1..(n - 1) :
                       KeyLess(as_bytes(names[k]), as_bytes(names[k + 1]))
                /\ \A p \in table :
                       \E k \in 1..n :
                           /\ p[2] = u64(k - 1)
                           /\ p[1] \in input.map[names[k]]
                /\ \A v \in DOMAIN input.map :
                       /\ \E k \in 1..n : names[k] = v
                       /\ \A c \in input.map[v] : \E p \in table : p[1] = c

\* C27 witness: of two variants the first in the list has an empty set, and
\* the codepoint of the second is compiled with the index 1
C27_Witness ==
    /\ calls # <<>>
    /\ \E names \in {EmittedNames} :
           /\ Len(names) = 2
           /\ input.map[names[1]] = {}
           /\ input.map[names[2]] = {65}
    /\ Compiled = {<<65, u64(1)>>}


-----------------------------------------------------------------------------
(* Properties of the scalar values next to the surrogates *)

\* C28 as stated: with char literals, every scalar value of the input of
\* ranges or ranges_to_unsigned_integer is covered by a range of the table
\* written as a slice, with its input value.
C28_OnlyNonScalarLost ==
    (MadeRanges /\ opts.char_literals) =>
        \E text \in {EmittedText} :
            \A c \in DOMAIN input.map :
                ~IsSurrogate(c) =>
                    \E i \in Covering(c) :
                        /\ Contains(text, EntryOf(ranges[i]))
                        /\ ValueOf(ranges[i]) = InputValue(c)

=============================================================================
